---- MODULE Spec2Model ----
(***************************************************************************)
(* Model of the browser-side voice changer of the AI video editor          *)
(* (src/unnamed/part_003, the VoiceChanger component): the effects graph   *)
(* built by applyVoiceTransformation, the WAV encoder audioBufferToBlob    *)
(* and the handler handleVoiceChange; and of the envelope analyzer and the *)
(* mouth-shape sequencer of the LipsyncGenerator component                 *)
(* (src/ai-video-editor/app/components/project-manager.tsx); and of the    *)
(* workflow page (src/ai-video-editor/app/app/page.tsx) with the upload    *)
(* component (src/unnamed/part_000) and the upload route of the server     *)
(* (src/ai-video-editor/app/app/api/projects/route.ts).                    *)
(*                                                                         *)
(* Sample values are fixed-point numbers: the integer n stands for the     *)
(* float n / FullScale, so FullScale is the sample 1.0.  The non-finite    *)
(* floats NaN, Infinity and -Infinity are values of their own.             *)
(* Slider values (pitch, reverb, echo, distortion) are kept in tenths, the *)
(* step of every slider; gains are kept in thousandths.                    *)
(***************************************************************************)
EXTENDS Integers, Sequences, FiniteSets, TLC

VARIABLES
    selectedVoiceType,  \* useState(''): the chosen preset, "" when none
    settings,           \* useState({pitch, speed, reverb, echo, distortion}), tenths
    sourceBuffer,       \* the decoded AudioBuffer handed to applyVoiceTransformation
    graph,              \* the node graph wired in the OfflineAudioContext
    processedBuffer,    \* the AudioBuffer handed to audioBufferToBlob
    processedAudio,     \* the bytes of the Blob audioBufferToBlob returned
    pc,                 \* position in the transform / encode pipeline
    uploadedAudio,      \* uploadedFiles.audio || uploadedFiles.video: the kind of file
    closure,            \* what the running handleVoiceChange closed over
    isProcessing,       \* useState(false) of the VoiceChanger
    status,             \* the last argument of onProcessingUpdate
    toast,              \* the title of the last toast
    completeCalls,      \* number of calls of onProcessingComplete
    loadCalls,          \* number of calls of loadAudioFile
    caught,             \* the error the catch branch of the last run caught, "" when none
    lipsyncSettings,    \* useState({smoothing, amplitudeThreshold, ...}) of the LipsyncGenerator
    audioBuffer,        \* the AudioBuffer handed to analyzeAudio
    amplitudes,         \* what analyzeAudio returned
    generatedShapes,    \* what generateMouthShapes returned
    mouthShapes,        \* what smoothMouthShapes returned
    generatorArgs,      \* the arguments createReverbImpulse / createDistortionCurve are called with
    reverbImpulse,      \* what createReverbImpulse returned
    distortionCurve,    \* what createDistortionCurve returned
    currentProject,     \* useState(null) of the page: the project record handed to it
    currentStep,        \* useState(0) of the page
    uploadedFiles,      \* useState({}) of the page: the types a file is held for
    editingType,        \* useState(null) of the page
    workflowSteps,      \* the status of each of the five steps
    projects,           \* useState([]) of the ProjectManager: its copies of the project records
    dropClosure,        \* the project handleDrop's memoized closure reads
    upload,             \* the upload request in flight
    serverProjects,     \* the project table of the server
    serverFiles         \* the files written below uploads/ on the server

handlerVars == <<uploadedAudio, closure, isProcessing, status, toast,
                 completeCalls, loadCalls, caught>>

lipsyncVars == <<lipsyncSettings, audioBuffer, amplitudes, generatedShapes,
                 mouthShapes>>

generatorVars == <<generatorArgs, reverbImpulse, distortionCurve>>

pageVars == <<currentProject, currentStep, uploadedFiles, editingType,
              workflowSteps, projects>>

uploadVars == <<dropClosure, upload, serverProjects, serverFiles>>

restVars == <<generatorVars, pageVars, uploadVars>>

vars == <<selectedVoiceType, settings, sourceBuffer, graph, processedBuffer,
          processedAudio, pc, handlerVars, lipsyncVars, restVars>>

(***************************************************************************)
(* Bounds of the model.                                                    *)
(***************************************************************************)
MaxChannels == 2
MaxEncFrames == 2

\* The sample value 1.0 in fixed point (a power of two, so that n / FullScale
\* is exactly representable as a float).
FullScale == 1024

\* A sample is a record: a finite float n / FullScale is Num(n); the
\* non-finite floats and JavaScript's undefined carry their kind only.
Num(n) == [kind |-> "num", v |-> n]
NaN == [kind |-> "NaN", v |-> 0]
PosInfinity == [kind |-> "Infinity", v |-> 0]
NegInfinity == [kind |-> "-Infinity", v |-> 0]
Undefined == [kind |-> "undefined", v |-> 0]

IsFinite(x) == x.kind = "num"

(***************************************************************************)
(* Arithmetic helpers.                                                     *)
(***************************************************************************)
Abs(x) == IF x < 0 THEN -x ELSE x

\* Truncation toward zero of num / den (den > 0), as ToInt16 / Math.trunc do.
Trunc(num, den) == IF num >= 0 THEN num \div den ELSE -((-num) \div den)

RECURSIVE Pow(_, _)
Pow(b, e) == IF e = 0 THEN 1 ELSE b * Pow(b, e - 1)

(***************************************************************************)
(* The preset table and the sliders.                                       *)
(***************************************************************************)
\* voiceTypes: value |-> pitch, in tenths.
VoiceTypeValues ==
    {"male-to-female", "female-to-male", "adult-to-child", "child-to-adult",
     "robot", "elderly"}

VoicePitch(value) ==
    CASE value = "male-to-female" -> 15
      [] value = "female-to-male" -> 7
      [] value = "adult-to-child" -> 18
      [] value = "child-to-adult" -> 6
      [] value = "robot" -> 10
      [] value = "elderly" -> 9

\* The pitch slider: min 0.5, max 2.0, step 0.1 (tenths).
PitchMin == 5
PitchMax == 20
\* The reverb, echo and distortion sliders: min 0, max 1, step 0.1 (tenths).
AmountMin == 0
AmountMax == 10

(***************************************************************************)
(* applyVoiceTransformation: the node graph.  A node is a type and the     *)
(* value of its one parameter: the playback rate of the source (in         *)
(* hundredths), the gain of a gain node (in thousandths), the delay time   *)
(* of the delay (in milliseconds), the intensity of the convolver's        *)
(* impulse and the amount of the waveshaper's curve (in tenths).           *)
(***************************************************************************)
Node(type, param) == [type |-> type, param |-> param]

\* Mutant of CreateReverbImpulse: a linear decay, 1 - i / length.
CreateReverbImpulseLinear(sampleRate, intensity, draws) ==
    LET length == sampleRate * 2
    IN  [channel \in 1..2 |-> [i \in 1..length |->
            Trunc(draws[channel][i] * (length - (i - 1)) * intensity,
                  length * 10)]]

\* createReverbImpulse(context, intensity): 2 channels of 2 * sampleRate
\* frames, sample i being random * decay * intensity with
\* decay = (1 - i / length)^2.  The draws (Math.random() * 2 - 1) are given
\* as a function from channel and frame to a value of [-1, 1].
CreateReverbImpulse(sampleRate, intensity, draws) ==
    LET length == sampleRate * 2
    IN  [channel \in 1..2 |-> [i \in 1..length |->
            Trunc(draws[channel][i] * (length - (i - 1)) * (length - (i - 1))
                    * intensity,
                  length * length * 10)]]

\* Mutant of PitchShift: the preset alone, the slider not read.
PitchShiftPresetOnly(voiceType, cfg) == VoicePitch(voiceType) * 10

\* const pitchShift = selectedType.pitch * settings.pitch[0] (hundredths)
PitchShift(voiceType, cfg) == VoicePitch(voiceType) * cfg.pitch

\* Mutant of ReverbPresent: the stage is wired at amount 0 as well.
ReverbPresentAtZero(cfg) == cfg.reverb >= 0

\* if (settings.reverb[0] > 0)
ReverbPresent(cfg) == cfg.reverb > 0

\* if (settings.echo[0] > 0)
EchoPresent(cfg) == cfg.echo > 0

\* if (selectedVoiceType === 'robot' || settings.distortion[0] > 0)
DistortionPresent(voiceType, cfg) ==
    voiceType = "robot" \/ cfg.distortion > 0

\* Mutant of DistortionAmount: no fallback (settings.distortion[0] ?? 0.5).
DistortionAmountNoFallback(cfg) == cfg.distortion

\* settings.distortion[0] || 0.5: the right operand when the left is 0.
DistortionAmount(cfg) ==
    IF cfg.distortion # 0 THEN cfg.distortion ELSE 5

\* The source node, its buffer and its playback rate set.
SourceStage(voiceType, cfg) ==
    [nodes |-> ("source" :> Node("source", PitchShift(voiceType, cfg))),
     edges |-> {},
     currentNode |-> "source",
     impulse |-> << >>]

\* The reverb block: currentNode feeds dryGain and the convolver, the
\* convolver feeds wetGain, both gains feed outputGain, the new currentNode.
ReverbStage(g, cfg, impulse) ==
    [nodes |-> g.nodes
        @@ ("reverb.convolver" :> Node("convolver", cfg.reverb))
        @@ ("reverb.wetGain" :> Node("gain", cfg.reverb * 30))
        @@ ("reverb.dryGain" :> Node("gain", 1000 - cfg.reverb * 30))
        @@ ("reverb.outputGain" :> Node("gain", 1000)),
     edges |-> g.edges \cup
        { <<g.currentNode, "reverb.dryGain">>,
          <<g.currentNode, "reverb.convolver">>,
          <<"reverb.convolver", "reverb.wetGain">>,
          <<"reverb.dryGain", "reverb.outputGain">>,
          <<"reverb.wetGain", "reverb.outputGain">> },
     currentNode |-> "reverb.outputGain",
     impulse |-> impulse]

\* Mutant of EchoStage: the block is fed by the source, not by currentNode.
EchoStageFromSource(g, cfg) ==
    [nodes |-> g.nodes
        @@ ("echo.delay" :> Node("delay", 300))
        @@ ("echo.feedback" :> Node("gain", cfg.echo * 40))
        @@ ("echo.wetGain" :> Node("gain", cfg.echo * 50))
        @@ ("echo.dryGain" :> Node("gain", 1000 - cfg.echo * 30))
        @@ ("echo.outputGain" :> Node("gain", 1000)),
     edges |-> g.edges \cup
        { <<"source", "echo.dryGain">>,
          <<"source", "echo.delay">>,
          <<"echo.delay", "echo.feedback">>,
          <<"echo.feedback", "echo.delay">>,
          <<"echo.delay", "echo.wetGain">>,
          <<"echo.dryGain", "echo.outputGain">>,
          <<"echo.wetGain", "echo.outputGain">> },
     currentNode |-> "echo.outputGain",
     impulse |-> g.impulse]

\* The echo block: currentNode feeds dryGain and the delay, the delay feeds
\* itself through the feedback gain and feeds wetGain, both gains feed
\* outputGain, the new currentNode.
EchoStage(g, cfg) ==
    [nodes |-> g.nodes
        @@ ("echo.delay" :> Node("delay", 300))
        @@ ("echo.feedback" :> Node("gain", cfg.echo * 40))
        @@ ("echo.wetGain" :> Node("gain", cfg.echo * 50))
        @@ ("echo.dryGain" :> Node("gain", 1000 - cfg.echo * 30))
        @@ ("echo.outputGain" :> Node("gain", 1000)),
     edges |-> g.edges \cup
        { <<g.currentNode, "echo.dryGain">>,
          <<g.currentNode, "echo.delay">>,
          <<"echo.delay", "echo.feedback">>,
          <<"echo.feedback", "echo.delay">>,
          <<"echo.delay", "echo.wetGain">>,
          <<"echo.dryGain", "echo.outputGain">>,
          <<"echo.wetGain", "echo.outputGain">> },
     currentNode |-> "echo.outputGain",
     impulse |-> g.impulse]

\* The waveshaper, fed by currentNode and the new currentNode.
DistortionStage(g, cfg) ==
    [nodes |-> g.nodes
        @@ ("waveshaper" :> Node("waveshaper", DistortionAmount(cfg))),
     edges |-> g.edges \cup { <<g.currentNode, "waveshaper">> },
     currentNode |-> "waveshaper",
     impulse |-> g.impulse]

\* currentNode.connect(offlineContext.destination)
ConnectDestination(g) ==
    [nodes |-> g.nodes @@ ("destination" :> Node("destination", 0)),
     edges |-> g.edges \cup { <<g.currentNode, "destination">> },
     currentNode |-> g.currentNode,
     impulse |-> g.impulse]

\* The effects chain, stage after stage, as the code wires it.
EffectsChain(voiceType, cfg, impulse) ==
    LET g0 == SourceStage(voiceType, cfg)
        g1 == IF ReverbPresent(cfg)
              THEN ReverbStage(g0, cfg, impulse) ELSE g0
        g2 == IF EchoPresent(cfg) THEN EchoStage(g1, cfg) ELSE g1
        g3 == IF DistortionPresent(voiceType, cfg)
              THEN DistortionStage(g2, cfg) ELSE g2
    IN  ConnectDestination(g3)

(***************************************************************************)
(* createDistortionCurve(amount): entry i of the 44100 entries is          *)
(* ((3 + amount) * x * 20 * deg) / (PI + amount * |x|), x = 2i/samples - 1,*)
(* deg = PI / 180.  With PI taken as PiNum / PiDen and amount in tenths    *)
(* the entry is (30 + amount) * m * PiNum over                             *)
(* 9 * (10 * PiNum * samples + PiDen * amount * |m|), m = 2i - samples;    *)
(* CurveEntry gives it in fixed point.                                     *)
(***************************************************************************)
CurveSamples == 44100
PiNum == 355
PiDen == 113

\* Mutant of CurveEntry: the divisor is PI alone, without amount * |x|.
CurveEntryPlainDivisor(amount, i) ==
    LET m == 2 * i - CurveSamples
        num == (30 + amount) * m * PiNum
        den == 9 * (10 * PiNum * CurveSamples)
    IN  Trunc(num, den \div FullScale)

CurveEntry(amount, i) ==
    LET m == 2 * i - CurveSamples
        num == (30 + amount) * m * PiNum
        den == 9 * (10 * PiNum * CurveSamples + PiDen * amount * Abs(m))
    IN  Trunc(num, den \div FullScale)

\* createDistortionCurve(amount): the Float32Array of the entries.
CreateDistortionCurve(amount) ==
    [i \in 1..CurveSamples |-> CurveEntry(amount, i - 1)]

(***************************************************************************)
(* What the OfflineAudioContext computes for a graph (the Web Audio        *)
(* engine, run by startRendering): every channel is rendered on its own,   *)
(* frame n of a node being a function of the frames of the nodes connected *)
(* to it.  Unconnected inputs are silent, several connections to one input *)
(* are summed.                                                             *)
(***************************************************************************)
Inputs(g, node) == {e[1] : e \in {x \in g.edges : x[2] = node}}

\* AudioBufferSourceNode started at 0: frame n reads the buffer at position
\* n * playbackRate, between two frames by linear interpolation, and is
\* silent once the position is past the end of the buffer.
SourceOut(buffer, rate, c, n) ==
    LET idx == (n * rate) \div 100
        frac == (n * rate) % 100
        data == buffer.channelData[c]
        s0 == data[idx + 1].v
        s1 == IF idx + 1 < buffer.length THEN data[idx + 2].v ELSE s0
    IN  IF idx >= buffer.length THEN 0
        ELSE s0 + Trunc((s1 - s0) * frac, 100)

\* DelayNode: delayTime (milliseconds) in frames of the context.
DelayFrames(delayTime, sampleRate) == (delayTime * sampleRate) \div 1000

\* WaveShaperNode: the input, limited to [-1, 1], indexes the curve.
WaveShape(amount, x) ==
    LET lim == IF x > FullScale THEN FullScale
               ELSE IF x < -FullScale THEN -FullScale ELSE x
    IN  CurveEntry(amount, ((CurveSamples - 1) * (lim + FullScale))
                               \div (2 * FullScale))

RECURSIVE NodeOut(_, _, _, _, _)
RECURSIVE SumOut(_, _, _, _, _)
RECURSIVE Convolve(_, _, _, _, _, _)

SumOut(g, buffer, ins, c, n) ==
    IF ins = {} THEN 0
    ELSE LET m == CHOOSE m \in ins : TRUE
         IN  NodeOut(g, buffer, m, c, n) + SumOut(g, buffer, ins \ {m}, c, n)

\* ConvolverNode: sum over k <= n of impulse[k] * input[n - k]; channel c of
\* the input is convolved with channel c of the stereo impulse (the second
\* one again for a third channel and on).
Convolve(g, buffer, node, c, n, k) ==
    IF k > n \/ k >= Len(g.impulse[1]) THEN 0
    ELSE LET h == g.impulse[IF c = 1 THEN 1 ELSE 2][k + 1]
         IN  (IF h = 0 THEN 0
              ELSE Trunc(h * SumOut(g, buffer, Inputs(g, node), c, n - k),
                         FullScale))
             + Convolve(g, buffer, node, c, n, k + 1)

NodeOut(g, buffer, node, c, n) ==
    IF n < 0 THEN 0
    ELSE LET nd == g.nodes[node]
             in == Inputs(g, node)
         IN  CASE nd.type = "source" -> SourceOut(buffer, nd.param, c, n)
               [] nd.type = "gain" ->
                    Trunc(nd.param * SumOut(g, buffer, in, c, n), 1000)
               [] nd.type = "delay" ->
                    SumOut(g, buffer, in, c,
                           n - DelayFrames(nd.param, buffer.sampleRate))
               [] nd.type = "convolver" -> Convolve(g, buffer, node, c, n, 0)
               [] nd.type = "waveshaper" ->
                    WaveShape(nd.param, SumOut(g, buffer, in, c, n))
               [] nd.type = "destination" -> SumOut(g, buffer, in, c, n)

\* offlineContext.startRendering(): a buffer with the channel count, the
\* length and the sample rate the OfflineAudioContext was constructed with.
StartRendering(g, ctx, buffer) ==
    [numberOfChannels |-> ctx.numberOfChannels,
     length |-> ctx.length,
     sampleRate |-> ctx.sampleRate,
     channelData |-> [c \in 1..ctx.numberOfChannels |->
        [i \in 1..ctx.length |->
            Num(NodeOut(g, buffer, "destination", c, i - 1))]]]

\* new OfflineAudioContext(buffer.numberOfChannels, buffer.length,
\*                         buffer.sampleRate): the constructor throws a
\* NotSupportedError when the length (or the channel count) is zero.
OfflineAudioContext(buffer) ==
    IF buffer.length = 0 \/ buffer.numberOfChannels = 0
    THEN [error |-> "NotSupportedError"]
    ELSE [error |-> "",
          numberOfChannels |-> buffer.numberOfChannels,
          length |-> buffer.length,
          sampleRate |-> buffer.sampleRate]

\* applyVoiceTransformation(buffer), reading selectedVoiceType and settings:
\* the error thrown, or the graph wired and the buffer rendered from it.
ApplyVoiceTransformation(buffer, voiceType, cfg, draws) ==
    IF voiceType \notin VoiceTypeValues
    THEN [error |-> "Voice type not found"]
    ELSE LET ctx == OfflineAudioContext(buffer)
         IN  IF ctx.error # ""
             THEN [error |-> ctx.error]
             ELSE LET impulse == IF ReverbPresent(cfg)
                                 THEN CreateReverbImpulse(ctx.sampleRate,
                                                          cfg.reverb, draws)
                                 ELSE << >>
                      g == EffectsChain(voiceType, cfg, impulse)
                  IN  [error |-> "", graph |-> g,
                       buffer |-> StartRendering(g, ctx, buffer)]

(***************************************************************************)
(* audioBufferToBlob: the WAV encoder.                                     *)
(***************************************************************************)
\* String.charCodeAt for the characters of the four chunk tags.
CharCodeAt(ch) ==
    CASE ch = "R" -> 82  [] ch = "I" -> 73  [] ch = "F" -> 70
      [] ch = "W" -> 87  [] ch = "A" -> 65  [] ch = "V" -> 86
      [] ch = "E" -> 69  [] ch = "f" -> 102 [] ch = "m" -> 109
      [] ch = "t" -> 116 [] ch = " " -> 32  [] ch = "d" -> 100
      [] ch = "a" -> 97

\* The n little-endian bytes of the unsigned value v.
LittleEndian(v, n) == [k \in 1..n |-> (v \div Pow(256, k - 1)) % 256]

\* A DataView write: the bytes stored from byte offset `offset` on.
Write(offset, bytes) == [offset |-> offset, bytes |-> bytes]

\* writeString(offset, string): one setUint8 per character.
WriteString(offset, string) ==
    Write(offset, [i \in 1..Len(string) |-> CharCodeAt(string[i])])

\* view.setUint32(offset, value, true): value modulo 2^32, little-endian.
\* Every value of the model is a non-negative number below 2^31, which the
\* reduction modulo 2^32 leaves as it is.
SetUint32(offset, value) == Write(offset, LittleEndian(value, 4))

\* view.setUint16(offset, value, true): value modulo 2^16, little-endian.
SetUint16(offset, value) == Write(offset, LittleEndian(value % Pow(2, 16), 2))

\* buffer.getChannelData(channel)[i]: undefined past the end of the array.
GetSample(buffer, channel, i) ==
    LET data == buffer.channelData[channel + 1]
    IN  IF i + 1 \in DOMAIN data THEN data[i + 1] ELSE Undefined

\* Math.min(1, x): NaN (and undefined, which converts to NaN) propagate.
MathMin1(x) ==
    CASE x.kind \in {"NaN", "undefined"} -> NaN
      [] x.kind = "Infinity" -> Num(FullScale)
      [] x.kind = "-Infinity" -> NegInfinity
      [] OTHER -> IF x.v > FullScale THEN Num(FullScale) ELSE x

\* Math.max(-1, x).
MathMaxNeg1(x) ==
    CASE x.kind = "NaN" -> NaN
      [] x.kind = "-Infinity" -> Num(-FullScale)
      [] OTHER -> IF x.v < -FullScale THEN Num(-FullScale) ELSE x

\* Mutant of ClampSample: the sample is not clamped.
ClampSampleNone(x) == IF x.kind = "undefined" THEN NaN ELSE x

\* const sample = Math.max(-1, Math.min(1, buffer.getChannelData(channel)[i]))
ClampSample(x) == MathMaxNeg1(MathMin1(x))

\* Mutant of ToInt16Bits: the sample is scaled by 0x8000.
ToInt16BitsScale8000(sample) ==
    IF sample.kind # "num" THEN 0
    ELSE Trunc(sample.v * 32768, FullScale) % Pow(2, 16)

\* The 16-bit field view.setInt16(offset, sample * 0x7FFF, true) stores, as
\* an unsigned number: ToInt16 maps NaN to 0, truncates toward zero and
\* reduces modulo 2^16 (an infinite product converts to 0 as well).
ToInt16Bits(sample) ==
    IF sample.kind # "num" THEN 0
    ELSE Trunc(sample.v * 32767, FullScale) % Pow(2, 16)

SetInt16(offset, sample) == Write(offset, LittleEndian(ToInt16Bits(sample), 2))

\* Mutant of HeaderWrites: the RIFF size is the size of the whole file.
HeaderWritesWholeSize(buffer) ==
    LET length == buffer.length
        numberOfChannels == buffer.numberOfChannels
        sampleRate == buffer.sampleRate
    IN  << WriteString(0, <<"R", "I", "F", "F">>),
           SetUint32(4, 44 + length * numberOfChannels * 2),
           WriteString(8, <<"W", "A", "V", "E">>),
           WriteString(12, <<"f", "m", "t", " ">>),
           SetUint32(16, 16),
           SetUint16(20, 1),
           SetUint16(22, numberOfChannels),
           SetUint32(24, sampleRate),
           SetUint32(28, sampleRate * numberOfChannels * 2),
           SetUint16(32, numberOfChannels * 2),
           SetUint16(34, 16),
           WriteString(36, <<"d", "a", "t", "a">>),
           SetUint32(40, length * numberOfChannels * 2) >>

\* The 44-byte header, in the order the code writes it.
HeaderWrites(buffer) ==
    LET length == buffer.length
        numberOfChannels == buffer.numberOfChannels
        sampleRate == buffer.sampleRate
    IN  << WriteString(0, <<"R", "I", "F", "F">>),
           SetUint32(4, 36 + length * numberOfChannels * 2),
           WriteString(8, <<"W", "A", "V", "E">>),
           WriteString(12, <<"f", "m", "t", " ">>),
           SetUint32(16, 16),
           SetUint16(20, 1),
           SetUint16(22, numberOfChannels),
           SetUint32(24, sampleRate),
           SetUint32(28, sampleRate * numberOfChannels * 2),
           SetUint16(32, numberOfChannels * 2),
           SetUint16(34, 16),
           WriteString(36, <<"d", "a", "t", "a">>),
           SetUint32(40, length * numberOfChannels * 2) >>

\* Mutant of PcmWrites: the loops are nested the other way round (all the
\* frames of a channel, then the next channel).
RECURSIVE PcmWritesPlanar(_, _, _, _)
PcmWritesPlanar(buffer, i, channel, offset) ==
    IF channel >= buffer.numberOfChannels THEN << >>
    ELSE IF i >= buffer.length
         THEN PcmWritesPlanar(buffer, 0, channel + 1, offset)
         ELSE << SetInt16(offset, ClampSample(GetSample(buffer, channel, i))) >>
              \o PcmWritesPlanar(buffer, i + 1, channel, offset + 2)

\* The two nested loops over frames and channels, offset starting at 44
\* and advancing by 2 after each sample.
RECURSIVE PcmWrites(_, _, _, _)
PcmWrites(buffer, i, channel, offset) ==
    IF i >= buffer.length THEN << >>
    ELSE IF channel >= buffer.numberOfChannels
         THEN PcmWrites(buffer, i + 1, 0, offset)
         ELSE << SetInt16(offset, ClampSample(GetSample(buffer, channel, i))) >>
              \o PcmWrites(buffer, i, channel + 1, offset + 2)

\* new ArrayBuffer(44 + length * numberOfChannels * 2)
ByteLength(buffer) == 44 + buffer.length * buffer.numberOfChannels * 2

Writes(buffer) == HeaderWrites(buffer) \o PcmWrites(buffer, 0, 0, 44)

\* The content of the ArrayBuffer (zero-filled at allocation) after the
\* writes ws: each byte holds what the last write covering it stored.
Apply(size, ws) ==
    [p \in 1..size |->
        LET hits == {k \in 1..Len(ws) :
                        /\ ws[k].offset < p
                        /\ p <= ws[k].offset + Len(ws[k].bytes)}
        IN  IF hits = {} THEN 0
            ELSE LET k == CHOOSE k \in hits : \A j \in hits : j <= k
                 IN  ws[k].bytes[p - ws[k].offset]]

\* audioBufferToBlob(buffer): the bytes of the Blob, or the RangeError a
\* DataView write outside the ArrayBuffer throws.
AudioBufferToBlob(buffer) ==
    LET ws == Writes(buffer)
        size == ByteLength(buffer)
    IN  IF \E k \in 1..Len(ws) : ws[k].offset + Len(ws[k].bytes) > size
        THEN [error |-> "RangeError", bytes |-> << >>]
        ELSE [error |-> "", bytes |-> Apply(size, ws)]

(***************************************************************************)
(* The buffers the encoder is applied to.                                  *)
(***************************************************************************)
SampleRates == {8000, 44100, 48000}

\* Sample values around the clamp limits, and the non-finite floats.
EncSamples ==
    {Num(n) : n \in {-3000, -1025, -1024, -1023, -1, 0, 1, 700, 1023, 1024,
                     1025, 2048}}
    \cup {NaN, PosInfinity, NegInfinity}

\* A finite in-range value that differs from frame to frame and from
\* channel to channel.
Filler(channel, i) ==
    LET m == ((channel * 5 + i * 3 + 1) * 97) % FullScale
    IN  IF (channel + i) % 2 = 0 THEN m ELSE -m

\* An AudioBuffer: every channel holds exactly `length` samples.
AudioBuffer(numberOfChannels, length, sampleRate, data) ==
    [numberOfChannels |-> numberOfChannels, length |-> length,
     sampleRate |-> sampleRate, channelData |-> data]

EncBuffers ==
    {AudioBuffer(C, F, R,
        [c \in 1..C |-> [i \in 1..F |->
            IF <<c, i>> = pos THEN x ELSE Num(Filler(c - 1, i - 1))]]) :
        <<C, F, R, pos, x>> \in
            {t \in (1..MaxChannels) \X (1..MaxEncFrames) \X SampleRates
                    \X ((1..MaxChannels) \X (1..MaxEncFrames)) \X EncSamples :
                t[4][1] <= t[1] /\ t[4][2] <= t[2]}}

NoBuffer == AudioBuffer(0, 0, 0, << >>)
NoGraph == [nodes |-> {}]
NoSettings == [pitch |-> 10, speed |-> 10, reverb |-> 0, echo |-> 0, distortion |-> 0]

\* The state of the handler of the VoiceChanger after mount: nothing
\* uploaded, nothing running, no status sent, no toast shown.
NoStatus == [isProcessing |-> FALSE, progress |-> 0, stage |-> ""]
NoClosure == [voiceType |-> "", settings |-> NoSettings, file |-> "none"]

HandlerIdle ==
    /\ uploadedAudio = "none"
    /\ closure = NoClosure
    /\ isProcessing = FALSE
    /\ status = NoStatus
    /\ toast = ""
    /\ completeCalls = 0
    /\ loadCalls = 0
    /\ caught = ""

\* The state of the LipsyncGenerator after mount: useState({quality:
\* 'enhanced', smoothing: true, amplitudeThreshold: 0.1, mouthScale: 1.0}),
\* the threshold in hundredths (the step of its slider); nothing analysed.
DefaultLipsyncSettings == [smoothing |-> TRUE, amplitudeThreshold |-> 10]

LipsyncIdle ==
    /\ lipsyncSettings = DefaultLipsyncSettings
    /\ audioBuffer = NoBuffer
    /\ amplitudes = << >>
    /\ generatedShapes = << >>
    /\ mouthShapes = << >>

\* No generator called.
NoArgs == [sampleRate |-> 0, amount |-> 0, seed |-> 0]

GeneratorIdle ==
    /\ generatorArgs = NoArgs
    /\ reverbImpulse = << >>
    /\ distortionCurve = << >>

\* The page after its first render: no project, step 0, the first step
\* active and the others pending, nothing uploaded, no editing type.
NoProject ==
    [id |-> 0, originalVideoPath |-> FALSE, processedVideoPath |-> FALSE,
     processedAudioPath |-> FALSE, finalVideoPath |-> FALSE]

InitialSteps == [index \in 0..4 |-> IF index = 0 THEN "active" ELSE "pending"]

\* A file by the head of its MIME type and its size in MB.
NoFile == [type |-> "", size |-> 0]

\* The last call of handleFileUpload of the VideoUpload: the file, the
\* project and the step of the render its closure belongs to, the project
\* selected on the page when it was called, whether it came from a file
\* input or from a drop, and how far it got.
NoUpload ==
    [file |-> NoFile, fileType |-> "", projectId |-> 0, pageStep |-> 0,
     selected |-> 0, via |-> "", state |-> ""]

PageIdle ==
    /\ currentProject = NoProject
    /\ currentStep = 0
    /\ uploadedFiles = {}
    /\ editingType = ""
    /\ workflowSteps = InitialSteps
    /\ projects = {}

\* The upload component as first rendered by that page, and a server that
\* holds no project and no file.
UploadIdle ==
    /\ dropClosure = NoProject
    /\ upload = NoUpload
    /\ serverProjects = {}
    /\ serverFiles = {}

RestIdle == GeneratorIdle /\ PageIdle /\ UploadIdle

(***************************************************************************)
(* handleVoiceChange, encoding step: processedBlob =                       *)
(* audioBufferToBlob(processedBuffer); setProcessedAudio(...).  A throw    *)
(* leaves processedAudio as it was and takes the catch branch.             *)
(***************************************************************************)
EncodeProcessed ==
    /\ UNCHANGED restVars
    /\ pc = "encoding"
    /\ LET blob == AudioBufferToBlob(processedBuffer)
       IN  IF blob.error = ""
           THEN /\ processedAudio' = blob.bytes
                /\ pc' = "encoded"
           ELSE /\ processedAudio' = processedAudio
                /\ pc' = "failed"
    /\ UNCHANGED <<selectedVoiceType, settings, sourceBuffer, graph, processedBuffer>>
    /\ UNCHANGED <<handlerVars, lipsyncVars>>

\* The encoder applied to every buffer of EncBuffers.
InitEncode ==
    /\ RestIdle
    /\ selectedVoiceType = ""
    /\ settings = NoSettings
    /\ sourceBuffer = NoBuffer
    /\ graph = NoGraph
    /\ processedBuffer \in EncBuffers
    /\ processedAudio = << >>
    /\ pc = "encoding"
    /\ HandlerIdle
    /\ LipsyncIdle

NextEncode == EncodeProcessed

SpecEncode == InitEncode /\ [][NextEncode]_vars

(***************************************************************************)
(* The transform of handleVoiceChange applied to decoded buffers: the      *)
(* inputs of applyVoiceTransformation are drawn at the start, then the     *)
(* buffer is transformed and the result encoded.                           *)
(***************************************************************************)
MaxFrames == 4

\* The sample rate of the decoded buffers of Spec, scaled down so that the
\* 0.3 s of the echo delay are a few frames.
RenderSampleRate == 10

PitchValues == {PitchMin, 10, PitchMax}

\* Mutant of AmountValues: sliders that run up to 2.0.
AmountValuesUpToTwo == {AmountMin, 2 * AmountMax}

\* Slider positions: both ends of the reverb and echo sliders, both ends and
\* a position in between of the distortion slider.
AmountValues == {AmountMin, AmountMax}

DistortionValues == {AmountMin, 3, AmountMax}

\* The waveforms of the source buffers: full-scale DC, a full-scale square
\* wave and a signal whose frames all differ; every second channel inverted.
\* The lengths start at 0, the buffer without frames.
Waveforms == {"dc", "square", "ramp"}

WaveSample(wave, channel, i) ==
    LET x == CASE wave = "dc" -> FullScale
               [] wave = "square" -> IF i % 2 = 0 THEN FullScale ELSE -FullScale
               [] wave = "ramp" -> Filler(0, i)
    IN  IF channel % 2 = 0 THEN x ELSE -x

SourceBuffers ==
    {AudioBuffer(C, F, RenderSampleRate,
        [c \in 1..C |-> [i \in 1..F |-> Num(WaveSample(w, c - 1, i - 1))]]) :
        <<C, F, w>> \in (1..MaxChannels) \X (0..MaxFrames) \X Waveforms}

\* The draws of Math.random() * 2 - 1 of one createReverbImpulse call.
DrawValues == << -FullScale, FullScale \div 2, 0, -(FullScale \div 4) >>

Seeds == {0, 1}

Draws(seed, sampleRate) ==
    [channel \in 1..2 |-> [i \in 1..(2 * sampleRate) |->
        DrawValues[(((seed + 1) * (3 * i + channel)) % 4) + 1]]]

\* handleVoiceChange: const processedBuffer =
\*   await applyVoiceTransformation(buffer); a throw takes the catch branch.
Transform ==
    /\ UNCHANGED restVars
    /\ pc = "transforming"
    /\ \E seed \in IF ReverbPresent(settings) THEN Seeds ELSE {0} :
         LET r == ApplyVoiceTransformation(sourceBuffer, selectedVoiceType,
                      settings, Draws(seed, sourceBuffer.sampleRate))
         IN  IF r.error = ""
             THEN /\ graph' = r.graph
                  /\ processedBuffer' = r.buffer
                  /\ pc' = "encoding"
             ELSE /\ pc' = "failed"
                  /\ UNCHANGED <<graph, processedBuffer>>
    /\ UNCHANGED <<selectedVoiceType, settings, sourceBuffer, processedAudio>>
    /\ UNCHANGED <<handlerVars, lipsyncVars>>

Init ==
    /\ RestIdle
    /\ selectedVoiceType \in VoiceTypeValues \cup {""}
    /\ settings \in [pitch : PitchValues, speed : {10}, reverb : AmountValues,
                     echo : AmountValues, distortion : DistortionValues]
    /\ sourceBuffer \in SourceBuffers
    /\ graph = NoGraph
    /\ processedBuffer = NoBuffer
    /\ processedAudio = << >>
    /\ pc = "transforming"
    /\ HandlerIdle
    /\ LipsyncIdle

Next == Transform \/ EncodeProcessed

Spec == Init /\ [][Next]_vars

(***************************************************************************)
(* Reading a WAV file back (the decode side of the container): the fields  *)
(* of the header and the 16-bit samples, each sample v standing for the    *)
(* float v / 32767.                                                        *)
(***************************************************************************)
U16At(bytes, offset) == bytes[offset + 1] + 256 * bytes[offset + 2]

U32At(bytes, offset) ==
    bytes[offset + 1] + 256 * bytes[offset + 2] + 65536 * bytes[offset + 3]
    + 16777216 * bytes[offset + 4]

I16At(bytes, offset) ==
    LET u == U16At(bytes, offset) IN IF u >= 32768 THEN u - 65536 ELSE u

TagAt(bytes, offset) == SubSeq(bytes, offset + 1, offset + 4)

Decode(bytes) ==
    LET channels == U16At(bytes, 22)
        frames == U32At(bytes, 40) \div (2 * channels)
    IN  [numberOfChannels |-> channels,
         sampleRate |-> U32At(bytes, 24),
         length |-> frames,
         pcm |-> [c \in 1..channels |-> [i \in 1..frames |->
                    I16At(bytes, 44 + 2 * ((i - 1) * channels + (c - 1)))]]]

(***************************************************************************)
(* Properties of the encoder (SpecEncode).                                 *)
(***************************************************************************)
Positions(buffer) == (1..buffer.numberOfChannels) \X (1..buffer.length)

SampleAt(buffer, pos) == buffer.channelData[pos[1]][pos[2]]

ValidBuffer(buffer) ==
    \A pos \in Positions(buffer) :
        /\ IsFinite(SampleAt(buffer, pos))
        /\ Abs(SampleAt(buffer, pos).v) <= FullScale

\* C6: the encoder writes the 44-byte header: "RIFF", the little-endian
\* total size minus 8 (36 + 2*F*C), "WAVE", "fmt ", chunk size 16, format
\* code 1, the channel count, the sample rate, the byte rate R*C*2, the block
\* align C*2, 16 bits per sample, "data" and the data length 2*F*C.
Thm_C6_Header ==
    pc = "encoded" =>
        LET b == processedAudio
            F == processedBuffer.length
            C == processedBuffer.numberOfChannels
            R == processedBuffer.sampleRate
        IN  /\ Len(b) >= 44
            /\ TagAt(b, 0) = <<82, 73, 70, 70>>
            /\ U32At(b, 4) = 36 + 2 * F * C
            /\ U32At(b, 4) = Len(b) - 8
            /\ TagAt(b, 8) = <<87, 65, 86, 69>>
            /\ TagAt(b, 12) = <<102, 109, 116, 32>>
            /\ U32At(b, 16) = 16
            /\ U16At(b, 20) = 1
            /\ U16At(b, 22) = C
            /\ U32At(b, 24) = R
            /\ U32At(b, 28) = R * C * 2
            /\ U16At(b, 32) = C * 2
            /\ U16At(b, 34) = 16
            /\ TagAt(b, 36) = <<100, 97, 116, 97>>
            /\ U32At(b, 40) = 2 * F * C

\* A stereo buffer at 44100 Hz (fields of more than one byte) was encoded.
Wit_C6_Header ==
    /\ pc = "encoded"
    /\ processedBuffer.sampleRate = 44100
    /\ processedBuffer.numberOfChannels = 2
    /\ processedBuffer.length = 2

\* C7: the encoder produces exactly 44 + 2*F*C bytes, the 16-bit sample of
\* frame i, channel c is stored at byte offset 44 + 2*(i*C + c), and every
\* byte of the body is written exactly once.
Thm_C7_Interleaving ==
    pc = "encoded" =>
        LET b == processedAudio
            F == processedBuffer.length
            C == processedBuffer.numberOfChannels
            ws == Writes(processedBuffer)
        IN  /\ Len(b) = 44 + 2 * F * C
            /\ \A pos \in Positions(processedBuffer) :
                  U16At(b, 44 + 2 * ((pos[2] - 1) * C + (pos[1] - 1)))
                    = ToInt16Bits(ClampSample(SampleAt(processedBuffer, pos)))
            /\ \A o \in 44..(Len(b) - 1) :
                  Cardinality({k \in 1..Len(ws) :
                      /\ ws[k].offset <= o
                      /\ o < ws[k].offset + Len(ws[k].bytes)}) = 1

\* A buffer of two channels and two frames was encoded.
Wit_C7_Interleaving ==
    /\ pc = "encoded"
    /\ processedBuffer.numberOfChannels = 2
    /\ processedBuffer.length = 2
    /\ Len(processedAudio) = 52

\* C8: for every finite sample s the encoded 16-bit value is
\* trunc(32767 * clamp(s, -1, 1)), which lies in [-32767, 32767]: a sample
\* outside [-1, 1] does not wrap around in the 16-bit field.
Thm_C8_ClampNoWrap ==
    pc = "encoded" =>
        \A pos \in Positions(processedBuffer) :
            LET s == SampleAt(processedBuffer, pos)
                C == processedBuffer.numberOfChannels
                stored == I16At(processedAudio,
                                44 + 2 * ((pos[2] - 1) * C + (pos[1] - 1)))
                clamped == IF s.v > FullScale THEN FullScale
                           ELSE IF s.v < -FullScale THEN -FullScale ELSE s.v
            IN  IsFinite(s) =>
                    /\ stored = Trunc(32767 * clamped, FullScale)
                    /\ stored >= -32767
                    /\ stored <= 32767

\* A buffer with a finite sample above 1.0 was encoded, the sample as 32767.
Wit_C8_ClampNoWrap ==
    /\ pc = "encoded"
    /\ \E pos \in Positions(processedBuffer) :
          /\ IsFinite(SampleAt(processedBuffer, pos))
          /\ SampleAt(processedBuffer, pos).v > FullScale
          /\ I16At(processedAudio,
                   44 + 2 * ((pos[2] - 1) * processedBuffer.numberOfChannels
                             + (pos[1] - 1))) = 32767

Cex_C10_FailFast ==
    (/\ pc # "encoding"
     /\ \E pos \in Positions(processedBuffer) :
           ~IsFinite(SampleAt(processedBuffer, pos)))
    => (pc = "failed" /\ processedAudio = << >>)

(***************************************************************************)
(* Properties of applyVoiceTransformation (Spec).                          *)
(***************************************************************************)
Rendered == pc \in {"encoding", "encoded"}

NoEffects ==
    settings.reverb = 0 /\ settings.echo = 0 /\ settings.distortion = 0

\* The output of the rate stage alone: the source played at the playback
\* rate into a buffer of the length of the context.
RateStageOnly ==
    [c \in 1..sourceBuffer.numberOfChannels |->
        [i \in 1..sourceBuffer.length |->
            Num(SourceOut(sourceBuffer,
                          VoicePitch(selectedVoiceType) * settings.pitch,
                          c, i - 1))]]

\* C1: the buffer render returns has frameCount = inputFrameCount /
\* playbackRate (to the frame), so that its length differs from the input's
\* whenever the rate is not 1.
Cex_C1_OutputLength ==
    Rendered =>
        LET rate == VoicePitch(selectedVoiceType) * settings.pitch
        IN  Abs(processedBuffer.length * rate - sourceBuffer.length * 100) < rate

\* C2, as stated: every sample of the buffer render returns lies in
\* [-1.0, 1.0].
Cex_C2_RenderClamped ==
    Rendered =>
        \A pos \in Positions(processedBuffer) :
            Abs(SampleAt(processedBuffer, pos).v) <= FullScale

\* C2, amended: render does not clamp; the clamp is the encoder's, so that
\* every 16-bit sample of the encoded output of a render is
\* trunc(32767 * clamp(s, -1, 1)) of the rendered sample s and lies in
\* [-32767, 32767].
Thm_C2_ClampInEncoder ==
    (pc = "encoded" /\ sourceBuffer # NoBuffer) =>
        \A pos \in Positions(processedBuffer) :
            LET v == SampleAt(processedBuffer, pos).v
                stored == I16At(processedAudio,
                    44 + 2 * ((pos[2] - 1) * processedBuffer.numberOfChannels
                              + (pos[1] - 1)))
            IN  /\ stored >= -32767
                /\ stored <= 32767
                /\ v > FullScale => stored = 32767
                /\ v < -FullScale => stored = -32767
                /\ Abs(v) <= FullScale => stored = Trunc(32767 * v, FullScale)

\* A render left a sample above 1.0 in its buffer and the buffer was encoded.
Wit_C2_ClampInEncoder ==
    /\ pc = "encoded"
    /\ sourceBuffer # NoBuffer
    /\ \E pos \in Positions(processedBuffer) :
          SampleAt(processedBuffer, pos).v > FullScale

\* C3, as stated: for every preset, with reverb, echo and distortion at 0
\* the graph is source -> destination and the output is the output of the
\* rate stage alone.
Cex_C3_ZeroAmounts ==
    (Rendered /\ NoEffects) =>
        /\ DOMAIN graph.nodes = {"source", "destination"}
        /\ graph.edges = { <<"source", "destination">> }
        /\ processedBuffer.channelData = RateStageOnly

\* C3, amended: for every preset other than robot, with reverb, echo and
\* distortion at 0 the graph is source -> destination and the output is the
\* output of the rate stage alone.
Thm_C3_ZeroAmounts ==
    (Rendered /\ NoEffects /\ selectedVoiceType # "robot") =>
        /\ DOMAIN graph.nodes = {"source", "destination"}
        /\ graph.edges = { <<"source", "destination">> }
        /\ processedBuffer.channelData = RateStageOnly

\* A render with all three amounts at 0, a preset other than robot and a
\* playback rate other than 1.
Wit_C3_ZeroAmounts ==
    /\ Rendered
    /\ NoEffects
    /\ selectedVoiceType = "adult-to-child"
    /\ settings.pitch = PitchMax
    /\ sourceBuffer.length >= 3

\* C4: the distortion stage is in the graph iff distortionAmount > 0 or the
\* preset is robot; its curve amount is distortionAmount when that is > 0
\* and 0.5 when robot forces the stage at distortionAmount = 0.
Thm_C4_Distortion ==
    Rendered =>
        /\ "waveshaper" \in DOMAIN graph.nodes
             <=> (settings.distortion > 0 \/ selectedVoiceType = "robot")
        /\ "waveshaper" \in DOMAIN graph.nodes =>
             /\ graph.nodes["waveshaper"].type = "waveshaper"
             /\ settings.distortion > 0 =>
                  graph.nodes["waveshaper"].param = settings.distortion
             /\ settings.distortion = 0 => graph.nodes["waveshaper"].param = 5
             /\ Inputs(graph, "destination") = {"waveshaper"}

\* The robot preset rendered with distortionAmount = 0.
Wit_C4_Distortion ==
    /\ Rendered
    /\ selectedVoiceType = "robot"
    /\ settings.distortion = 0
    /\ "waveshaper" \in DOMAIN graph.nodes

StageNodes(stage) ==
    CASE stage = 1 -> {"reverb.convolver", "reverb.wetGain", "reverb.dryGain",
                       "reverb.outputGain"}
      [] stage = 2 -> {"echo.delay", "echo.feedback", "echo.wetGain",
                       "echo.dryGain", "echo.outputGain"}
      [] stage = 3 -> {"waveshaper"}

StageOutput(stage) ==
    CASE stage = 1 -> "reverb.outputGain"
      [] stage = 2 -> "echo.outputGain"
      [] stage = 3 -> "waveshaper"

StagePresent(stage) == StageNodes(stage) \subseteq DOMAIN graph.nodes

StageAbsent(stage) == StageNodes(stage) \cap DOMAIN graph.nodes = {}

\* The output of the last stage before `stage` that is in the graph, the
\* source when there is none.
RECURSIVE PreviousOutput(_)
PreviousOutput(stage) ==
    IF stage = 1 THEN "source"
    ELSE IF StagePresent(stage - 1) THEN StageOutput(stage - 1)
         ELSE PreviousOutput(stage - 1)

\* C5: the stages are wired in the order source -> reverb -> echo ->
\* distortion -> destination; the reverb stage is present iff
\* reverbAmount > 0 and the echo stage iff echoAmount > 0; each present stage
\* is fed by the output of the previous present stage (and by nothing else),
\* and the destination by the output of the last one.
Thm_C5_ChainOrder ==
    Rendered =>
        /\ StagePresent(1) <=> settings.reverb > 0
        /\ StagePresent(2) <=> settings.echo > 0
        /\ \A k \in 1..3 : StagePresent(k) \/ StageAbsent(k)
        /\ \A k \in 1..3 : StagePresent(k) =>
             /\ {e[1] : e \in {x \in graph.edges :
                    x[2] \in StageNodes(k) /\ x[1] \notin StageNodes(k)}}
                  = {PreviousOutput(k)}
             /\ \A e \in graph.edges :
                  (e[1] \in StageNodes(k) /\ e[2] \notin StageNodes(k))
                     => e[1] = StageOutput(k)
        /\ Inputs(graph, "destination") = {PreviousOutput(4)}
        /\ Inputs(graph, "source") = {}
        /\ \A e \in graph.edges : e[1] # "destination"

\* A render with all three stages present: the echo block is fed by the
\* output of the reverb block, the waveshaper by the output of the echo block.
Wit_C5_ChainOrder ==
    /\ Rendered
    /\ StagePresent(1) /\ StagePresent(2) /\ StagePresent(3)
    /\ Inputs(graph, "echo.delay") = {"reverb.outputGain", "echo.feedback"}
    /\ Inputs(graph, "waveshaper") = {"echo.outputGain"}


(***************************************************************************)
(* handleVoiceChange as a process (SpecVoice): the click on the transform  *)
(* button, then one step per await of the handler.  selectedVoiceType,     *)
(* settings and uploadedFiles are read through the closure of the render   *)
(* the click happened in.                                                  *)
(***************************************************************************)
MaxRuns == 2

\* Uploaded files, by what decodeAudioData makes of their bytes: bytes
\* that are no audio, an audio file without frames, an audio file.
FileKinds == {"corrupt", "empty", "tone"}

EmptyBuffer == AudioBuffer(1, 0, RenderSampleRate, << << >> >>)

ToneBuffer ==
    AudioBuffer(1, MaxEncFrames, RenderSampleRate,
        << [i \in 1..MaxEncFrames |-> Num(WaveSample("ramp", 0, i - 1))] >>)

\* loadAudioFile(file): the outcomes of audioContext.decodeAudioData.  For
\* the file without frames a browser either rejects or resolves with a
\* buffer of length 0.
LoadAudioFile(file) ==
    CASE file = "corrupt" -> {[error |-> "EncodingError"]}
      [] file = "empty" -> {[error |-> "EncodingError"],
                            [error |-> "", buffer |-> EmptyBuffer]}
      [] file = "tone" -> {[error |-> "", buffer |-> ToneBuffer]}

OnProcessingUpdate(progress, stage) ==
    [isProcessing |-> TRUE, progress |-> progress, stage |-> stage]

\* The voice types and the sliders the runs of the handler are made with.
RunVoiceTypes == {"robot", "child-to-adult"}

MovedSliders == {"echo"}

\* onClick={() => setSelectedVoiceType(type.value)}
SetSelectedVoiceType ==
    /\ UNCHANGED restVars
    /\ \E v \in RunVoiceTypes : selectedVoiceType' = v
    /\ UNCHANGED <<settings, sourceBuffer, graph, processedBuffer,
                   processedAudio, pc, handlerVars, lipsyncVars>>

\* onValueChange={(value) => setSettings(prev => ({ ...prev, echo: value }))}
SetSettings ==
    /\ UNCHANGED restVars
    /\ \E f \in MovedSliders, v \in AmountValues :
          settings' = [settings EXCEPT ![f] = v]
    /\ UNCHANGED <<selectedVoiceType, sourceBuffer, graph, processedBuffer,
                   processedAudio, pc, handlerVars, lipsyncVars>>

\* The parent hands a new uploadedFiles to the component.
SetUploadedFiles ==
    /\ UNCHANGED restVars
    /\ \E f \in FileKinds : uploadedAudio' = f
    /\ UNCHANGED <<selectedVoiceType, settings, sourceBuffer, graph,
                   processedBuffer, processedAudio, pc, closure, isProcessing,
                   status, toast, completeCalls, loadCalls, caught, lipsyncVars>>

\* The catch branch without its status update.
CatchWithoutUpdate(error) ==
    /\ caught' = error
    /\ status' = status
    /\ toast' = "Transformation Failed"
    /\ isProcessing' = FALSE
    /\ pc' = "idle"
    /\ UNCHANGED <<sourceBuffer, graph, processedBuffer, processedAudio,
                   completeCalls>>

\* catch (error) { console.error; onProcessingUpdate({isProcessing: false,
\* progress: 0, stage: ''}); toast(...) } finally { setIsProcessing(false) }
Catch(error) ==
    /\ caught' = error
    /\ status' = NoStatus
    /\ toast' = "Transformation Failed"
    /\ isProcessing' = FALSE
    /\ pc' = "idle"
    /\ UNCHANGED <<sourceBuffer, graph, processedBuffer, processedAudio,
                   completeCalls>>

\* The click on the button (disabled without a voice type, while processing
\* and without a file; the audio context exists from the mount on), up to
\* the first await: the status updates 0 and 20, then loadAudioFile.
HandleVoiceChange ==
    /\ UNCHANGED restVars
    /\ pc = "idle"
    /\ selectedVoiceType # ""
    /\ ~isProcessing
    /\ uploadedAudio # "none"
    /\ loadCalls < MaxRuns
    /\ isProcessing' = TRUE
    /\ status' = OnProcessingUpdate(20, "Loading audio file...")
    /\ closure' = [voiceType |-> selectedVoiceType, settings |-> settings,
                   file |-> uploadedAudio]
    /\ loadCalls' = loadCalls + 1
    /\ caught' = ""
    /\ pc' = "loading"
    /\ UNCHANGED <<selectedVoiceType, settings, sourceBuffer, graph,
                   processedBuffer, processedAudio, uploadedAudio, toast,
                   completeCalls, lipsyncVars>>

\* await loadAudioFile(audioFile) settles: setSourceBuffer, status 40 and
\* the one-second timer; or the catch branch.
AudioLoaded ==
    /\ UNCHANGED restVars
    /\ pc = "loading"
    /\ \E r \in LoadAudioFile(closure.file) :
          IF r.error = ""
          THEN /\ sourceBuffer' = r.buffer
               /\ status' = OnProcessingUpdate(40, "Analyzing audio characteristics...")
               /\ pc' = "analyzing"
               /\ UNCHANGED <<graph, processedBuffer, processedAudio,
                              isProcessing, toast, completeCalls, caught>>
          ELSE Catch(r.error)
    /\ UNCHANGED <<selectedVoiceType, settings, uploadedAudio, closure,
                   loadCalls, lipsyncVars>>

\* The timer fires: status 60, applyVoiceTransformation(buffer) is called.
TimerElapsed ==
    /\ UNCHANGED restVars
    /\ pc = "analyzing"
    /\ status' = OnProcessingUpdate(60, "Applying voice transformation...")
    /\ pc' = "rendering"
    /\ UNCHANGED <<selectedVoiceType, settings, sourceBuffer, graph,
                   processedBuffer, processedAudio, uploadedAudio, closure,
                   isProcessing, toast, completeCalls, loadCalls, caught,
                   lipsyncVars>>

\* await applyVoiceTransformation(buffer) settles: status 80, the encoding,
\* setProcessedAudio, status 100, the toast and onProcessingComplete(), then
\* the finally branch; or the catch branch.
RenderSettled ==
    /\ UNCHANGED restVars
    /\ pc = "rendering"
    /\ \E seed \in IF ReverbPresent(closure.settings) THEN Seeds ELSE {0} :
         LET r == ApplyVoiceTransformation(sourceBuffer, closure.voiceType,
                      closure.settings, Draws(seed, sourceBuffer.sampleRate))
             blob == AudioBufferToBlob(r.buffer)
         IN  IF r.error # ""
             THEN Catch(r.error)
             ELSE IF blob.error # ""
             THEN Catch(blob.error)
             ELSE /\ graph' = r.graph
                  /\ processedBuffer' = r.buffer
                  /\ processedAudio' = blob.bytes
                  /\ status' = OnProcessingUpdate(100, "Voice transformation completed!")
                  /\ toast' = "Voice Transformation Complete"
                  /\ completeCalls' = completeCalls + 1
                  /\ isProcessing' = FALSE
                  /\ pc' = "idle"
                  /\ UNCHANGED <<sourceBuffer, caught>>
    /\ UNCHANGED <<selectedVoiceType, settings, uploadedAudio, closure,
                   loadCalls, lipsyncVars>>

InitVoice ==
    /\ RestIdle
    /\ selectedVoiceType = ""
    /\ settings = NoSettings
    /\ sourceBuffer = NoBuffer
    /\ graph = NoGraph
    /\ processedBuffer = NoBuffer
    /\ processedAudio = << >>
    /\ pc = "idle"
    /\ HandlerIdle
    /\ LipsyncIdle

NextVoice ==
    \/ SetSelectedVoiceType
    \/ SetSettings
    \/ SetUploadedFiles
    \/ HandleVoiceChange
    \/ AudioLoaded
    \/ TimerElapsed
    \/ RenderSettled

SpecVoice == InitVoice /\ [][NextVoice]_vars

\* C12: a step of handleVoiceChange in which decoding or rendering fails
\* (the catch branch catches an error) shows the error toast and sends the
\* status isProcessing = false, progress 0; it leaves processedAudio as it
\* was, does not call onProcessingComplete, calls loadAudioFile no second
\* time and ends the run.
Thm_C12_FailurePath ==
    [][(caught = "" /\ caught' # "")
        => /\ pc \in {"loading", "rendering"}
           /\ toast' = "Transformation Failed"
           /\ status' = [isProcessing |-> FALSE, progress |-> 0, stage |-> ""]
           /\ processedAudio' = processedAudio
           /\ completeCalls' = completeCalls
           /\ loadCalls' = loadCalls
           /\ pc' = "idle"
           /\ ~isProcessing']_vars

\* A second run failed after a first one succeeded: the output of the
\* first run is still there.
Wit_C12_FailurePath ==
    /\ caught # ""
    /\ pc = "idle"
    /\ processedAudio # << >>
    /\ completeCalls = 1
    /\ loadCalls = 2
    /\ status = NoStatus

(***************************************************************************)
(* The LipsyncGenerator: analyzeAudio, generateMouthShapes and             *)
(* smoothMouthShapes.  An amplitude is a fraction num / den of exact       *)
(* integers (a sum of sample magnitudes over a count of frames times       *)
(* FullScale); the amplitude threshold is kept in hundredths, the step of  *)
(* its slider, and the comparisons with 0.3, 0.6 and 0.8 of the threshold  *)
(* are made in exact arithmetic.                                           *)
(***************************************************************************)
Ratio(num, den) == [num |-> num, den |-> den]

\* amplitude < threshold * factor, the factor in tenths.
Below(amplitude, threshold, factor) ==
    amplitude.num * 1000 < threshold * factor * amplitude.den

\* The top of the threshold slider: max 0.5, step 0.01 (hundredths).
ThresholdMax == 50

FramesPerSecond == 30

\* const frameSize = Math.floor(sampleRate / 30)
FrameSize(sampleRate) == sampleRate \div FramesPerSecond

MathMin(a, b) == IF a < b THEN a ELSE b

\* Mutant of GetChannelData: the last channel instead of channel 0.
GetChannelDataLast(buffer) == buffer.channelData[buffer.numberOfChannels]

\* audioBuffer.getChannelData(0)
GetChannelData(buffer) == buffer.channelData[1]

\* for (let j = i; j < end; j++) sum += Math.abs(channelData[j])
RECURSIVE SumAbs(_, _, _)
SumAbs(channelData, j, end) ==
    IF j >= end THEN 0
    ELSE Abs(channelData[j + 1].v) + SumAbs(channelData, j + 1, end)

\* Mutant of WindowAmplitude: the sum divided by the nominal frame size.
WindowAmplitudePadded(channelData, i, end, frameSize) ==
    Ratio(SumAbs(channelData, i, end), frameSize * FullScale)

\* const amplitude = sum / (end - i)
WindowAmplitude(channelData, i, end, frameSize) ==
    Ratio(SumAbs(channelData, i, end), (end - i) * FullScale)

\* for (let i = 0; i < channelData.length; i += frameSize) { ... push }
RECURSIVE AnalyzeFrom(_, _, _)
AnalyzeFrom(channelData, frameSize, i) ==
    IF i >= Len(channelData) THEN << >>
    ELSE LET end == MathMin(i + frameSize, Len(channelData))
         IN  << WindowAmplitude(channelData, i, end, frameSize) >>
                \o AnalyzeFrom(channelData, frameSize, i + frameSize)

\* analyzeAudio(audioBuffer), for a frame size of at least 1.
AnalyzeAudio(buffer) ==
    AnalyzeFrom(GetChannelData(buffer), FrameSize(buffer.sampleRate), 0)

\* Mutant of MouthShape: the band edges at 3, 6 and 8 times the threshold.
MouthShapeTenfold(amplitude, cfg) ==
    IF Below(amplitude, cfg.amplitudeThreshold, 30) THEN "closed"
    ELSE IF Below(amplitude, cfg.amplitudeThreshold, 60) THEN "slightly-open"
    ELSE IF Below(amplitude, cfg.amplitudeThreshold, 80) THEN "open"
    ELSE "wide-open"

\* Mutant of MouthShape: the band edges belong to the lower band.
MouthShapeInclusive(amplitude, cfg) ==
    IF amplitude.num * 1000 <= cfg.amplitudeThreshold * 3 * amplitude.den
    THEN "closed"
    ELSE IF amplitude.num * 1000 <= cfg.amplitudeThreshold * 6 * amplitude.den
    THEN "slightly-open"
    ELSE IF amplitude.num * 1000 <= cfg.amplitudeThreshold * 8 * amplitude.den
    THEN "open"
    ELSE "wide-open"

\* The callback of amplitudes.map in generateMouthShapes.
MouthShape(amplitude, cfg) ==
    IF Below(amplitude, cfg.amplitudeThreshold, 3) THEN "closed"
    ELSE IF Below(amplitude, cfg.amplitudeThreshold, 6) THEN "slightly-open"
    ELSE IF Below(amplitude, cfg.amplitudeThreshold, 8) THEN "open"
    ELSE "wide-open"

\* generateMouthShapes(amplitudes)
GenerateMouthShapes(amps, cfg) ==
    [k \in 1..Len(amps) |-> MouthShape(amps[k], cfg)]

SmoothWindow == 3

\* arr.filter(v => v === a).length
FilterLength(arr, a) == Cardinality({k \in 1..Len(arr) : arr[k] = a})

\* Mutant of MostCommon: on equal counts the later label wins.
RECURSIVE ReduceLast(_, _, _)
ReduceLast(arr, a, k) ==
    IF k > Len(arr) THEN a
    ELSE ReduceLast(arr,
                    IF FilterLength(arr, a) > FilterLength(arr, arr[k])
                    THEN a ELSE arr[k],
                    k + 1)

MostCommonLast(window) == ReduceLast(window, window[1], 2)

\* window.reduce((a, b, _, arr) => count(a) >= count(b) ? a : b): without an
\* initial value the accumulator starts as the first entry and b runs over
\* the others.
RECURSIVE Reduce(_, _, _)
Reduce(arr, a, k) ==
    IF k > Len(arr) THEN a
    ELSE Reduce(arr,
                IF FilterLength(arr, a) >= FilterLength(arr, arr[k])
                THEN a ELSE arr[k],
                k + 1)

MostCommon(window) == Reduce(window, window[1], 2)

\* Mutant of SmoothMouthShapes: the flag is not read.
SmoothMouthShapesAlways(shapes, cfg) ==
    [k \in 1..Len(shapes) |->
        IF SmoothWindow <= k - 1 /\ k - 1 < Len(shapes) - SmoothWindow
        THEN MostCommon(SubSeq(shapes, k - SmoothWindow, k + SmoothWindow))
        ELSE shapes[k]]

\* Mutant of SmoothMouthShapes: only the smoothed entries are returned.
SmoothMouthShapesInterior(shapes, cfg) ==
    IF ~cfg.smoothing THEN shapes
    ELSE [k \in 1..(IF Len(shapes) > 2 * SmoothWindow
                    THEN Len(shapes) - 2 * SmoothWindow ELSE 0) |->
            MostCommon(SubSeq(shapes, k, k + 2 * SmoothWindow))]

\* smoothMouthShapes(shapes): entry i of the copy, for i from windowSize to
\* shapes.length - windowSize - 1, is the reduce over
\* shapes.slice(i - windowSize, i + windowSize + 1).
SmoothMouthShapes(shapes, cfg) ==
    IF ~cfg.smoothing THEN shapes
    ELSE [k \in 1..Len(shapes) |->
            IF SmoothWindow <= k - 1 /\ k - 1 < Len(shapes) - SmoothWindow
            THEN MostCommon(SubSeq(shapes, k - SmoothWindow, k + SmoothWindow))
            ELSE shapes[k]]

(***************************************************************************)
(* The analyzer and the sequencer applied to their inputs (SpecLipsync):   *)
(* a decoded buffer is analysed and its envelope sequenced, or an envelope *)
(* is sequenced as it is.                                                  *)
(***************************************************************************)
MaxAnalysisFrames == 7
MaxEnvelope == 8

\* Sample rates of the analysed buffers, scaled down so that a window is 1,
\* 2 or 3 frames: floor(30 / 30), floor(60 / 30), floor(100 / 30); and the
\* rates 1 and 29, below 30, whose window floor(sampleRate / 30) is 0.
AnalysisRates == {1, 29, 30, 60, 100}

\* Channel 0 of the analysed buffers: silence, the waveforms of the source
\* buffers and a quiet signal around the band edges; the other channels are
\* full-scale DC.
AnalysisWaveforms == Waveforms \cup {"silence", "quiet"}

AnalysisSample(wave, channel, i) ==
    IF channel > 0 THEN FullScale
    ELSE CASE wave = "silence" -> 0
           [] wave = "quiet" -> Filler(0, i) \div 8
           [] OTHER -> WaveSample(wave, 0, i)

AnalysisBuffers ==
    {AudioBuffer(C, F, R,
        [c \in 1..C |-> [i \in 1..F |-> Num(AnalysisSample(w, c - 1, i - 1))]]) :
        <<C, F, R, w>> \in (1..MaxChannels) \X (0..MaxAnalysisFrames)
                              \X AnalysisRates \X AnalysisWaveforms}

\* Positions of the threshold slider: one where 0.05 falls into the open
\* band, the default 0.1, and the top of the slider.
ThresholdValues == {8, 10, ThresholdMax}

\* Envelope values: 0.02, 0.05 and 0.4.
EnvelopeValues == {Ratio(20, 1000), Ratio(50, 1000), Ratio(400, 1000)}

\* The band edges 0.3, 0.6 and 0.8 of every threshold, and the values one
\* thousandth of the threshold next to them.
BandEdgeValues ==
    {Ratio(t * f + d, 1000) :
        <<t, f, d>> \in ThresholdValues \X {3, 6, 8} \X {-1, 0, 1}}

Envelopes ==
    UNION {[1..n -> EnvelopeValues] : n \in 0..MaxEnvelope}
    \cup {<<v>> : v \in BandEdgeValues}

\* handleLipsyncGeneration: loadAndAnalyzeAudio returns
\* analyzeAudio(audioBuffer).
AnalyzeStep ==
    /\ UNCHANGED restVars
    /\ pc = "analysing"
    /\ IF FrameSize(audioBuffer.sampleRate) = 0 /\ audioBuffer.length > 0
       THEN \* i += 0: the loop condition i < channelData.length stays true
            /\ pc' = "looping"
            /\ UNCHANGED amplitudes
       ELSE /\ amplitudes' = AnalyzeAudio(audioBuffer)
            /\ pc' = "generating"
    /\ UNCHANGED <<selectedVoiceType, settings, sourceBuffer, graph,
                   processedBuffer, processedAudio, handlerVars,
                   lipsyncSettings, audioBuffer, generatedShapes, mouthShapes>>

\* handleLipsyncGeneration: generatedShapes = generateMouthShapes(amplitudes);
\* smoothedShapes = smoothMouthShapes(generatedShapes);
\* setMouthShapes(smoothedShapes).
GenerateStep ==
    /\ UNCHANGED restVars
    /\ pc = "generating"
    /\ generatedShapes' = GenerateMouthShapes(amplitudes, lipsyncSettings)
    /\ mouthShapes' = SmoothMouthShapes(generatedShapes', lipsyncSettings)
    /\ pc' = "generated"
    /\ UNCHANGED <<selectedVoiceType, settings, sourceBuffer, graph,
                   processedBuffer, processedAudio, handlerVars,
                   lipsyncSettings, audioBuffer, amplitudes>>

InitLipsync ==
    /\ RestIdle
    /\ selectedVoiceType = ""
    /\ settings = NoSettings
    /\ sourceBuffer = NoBuffer
    /\ graph = NoGraph
    /\ processedBuffer = NoBuffer
    /\ processedAudio = << >>
    /\ HandlerIdle
    /\ lipsyncSettings \in [smoothing : BOOLEAN, amplitudeThreshold : ThresholdValues]
    /\ generatedShapes = << >>
    /\ mouthShapes = << >>
    /\ \/ /\ audioBuffer \in AnalysisBuffers
          /\ amplitudes = << >>
          /\ pc = "analysing"
       \/ /\ audioBuffer = NoBuffer
          /\ amplitudes \in Envelopes
          /\ pc = "generating"

NextLipsync == AnalyzeStep \/ GenerateStep

SpecLipsync == InitLipsync /\ [][NextLipsync]_vars

(***************************************************************************)
(* Properties of the analyzer and the sequencer (SpecLipsync).             *)
(***************************************************************************)
Analysed == pc \in {"generating", "generated"} /\ audioBuffer # NoBuffer

Generated == pc = "generated"

\* The frames of window k (from 0) of a buffer of F frames, w frames a window.
WindowFrames(k, w, F) == {j \in 0..(F - 1) : k * w <= j /\ j < (k + 1) * w}

RECURSIVE MagnitudeSum(_, _)
MagnitudeSum(channelData, frames) ==
    IF frames = {} THEN 0
    ELSE LET j == CHOOSE x \in frames : TRUE
         IN  Abs(channelData[j + 1].v) + MagnitudeSum(channelData, frames \ {j})

\* C14: for a window size w = floor(sampleRate / 30) >= 1, analyzeAudio
\* returns ceil(frameCount / w) values, and value k is the sum of the
\* magnitudes of the channel-0 frames of window k divided by the number of
\* frames that window really has.
Thm_C14_Envelope ==
    Analysed =>
        LET w == audioBuffer.sampleRate \div 30
            F == audioBuffer.length
        IN  w >= 1 =>
              /\ Len(amplitudes) = (F + w - 1) \div w
              /\ \A k \in 1..Len(amplitudes) :
                    LET frames == WindowFrames(k - 1, w, F)
                    IN  /\ amplitudes[k].den > 0
                        /\ amplitudes[k].num * Cardinality(frames) * FullScale
                             = MagnitudeSum(audioBuffer.channelData[1], frames)
                                 * amplitudes[k].den

\* A buffer whose last window is a partial one, with a sound in it.
Wit_C14_Envelope ==
    /\ Analysed
    /\ audioBuffer.sampleRate \div 30 = 3
    /\ audioBuffer.length % 3 = 1
    /\ Len(amplitudes) >= 2
    /\ amplitudes[Len(amplitudes)].num > 0
    /\ amplitudes[Len(amplitudes)].den = FullScale

\* C15: generateMouthShapes gives the amplitude a under the threshold t the
\* shape closed exactly when a < 0.3 t, slightly-open exactly when
\* 0.3 t <= a < 0.6 t, open exactly when 0.6 t <= a < 0.8 t and wide-open
\* exactly when a >= 0.8 t: every amplitude has one shape and one only.
Thm_C15_Bands ==
    Generated =>
        \A k \in 1..Len(amplitudes) :
            LET a == amplitudes[k].num * 1000
                t == lipsyncSettings.amplitudeThreshold * amplitudes[k].den
                shape == generatedShapes[k]
            IN  /\ shape \in {"closed", "slightly-open", "open", "wide-open"}
                /\ (shape = "closed") <=> (a < 3 * t)
                /\ (shape = "slightly-open") <=> (3 * t <= a /\ a < 6 * t)
                /\ (shape = "open") <=> (6 * t <= a /\ a < 8 * t)
                /\ (shape = "wide-open") <=> (a >= 8 * t)

\* An amplitude on the edge between two bands: 0.06 under the threshold 0.1
\* is open, no longer slightly-open.
Wit_C15_Bands ==
    /\ Generated
    /\ lipsyncSettings.amplitudeThreshold = 10
    /\ amplitudes = << Ratio(60, 1000) >>
    /\ generatedShapes = << "open" >>

ScenarioEnvelope ==
    << Ratio(50, 1000), Ratio(50, 1000), Ratio(400, 1000), Ratio(400, 1000),
       Ratio(400, 1000), Ratio(50, 1000), Ratio(50, 1000) >>

Scenario ==
    /\ Generated
    /\ amplitudes = ScenarioEnvelope
    /\ lipsyncSettings.amplitudeThreshold = 10
    /\ ~lipsyncSettings.smoothing

\* C16, as stated: the envelope [0.05, 0.05, 0.4, 0.4, 0.4, 0.05, 0.05]
\* under the threshold 0.1, smoothing disabled, gives closed, closed, open,
\* open, open, closed, closed.
Cex_C16_Scenario ==
    Scenario =>
        mouthShapes = << "closed", "closed", "open", "open", "open",
                         "closed", "closed" >>

\* C16, amended: 0.05 lies in [0.03, 0.06) and 0.4 above 0.08, so that the
\* envelope gives slightly-open, slightly-open, wide-open, wide-open,
\* wide-open, slightly-open, slightly-open.
Thm_C16_Scenario ==
    Scenario =>
        /\ generatedShapes = << "slightly-open", "slightly-open", "wide-open",
                                "wide-open", "wide-open", "slightly-open",
                                "slightly-open" >>
        /\ mouthShapes = generatedShapes

Wit_C16_Scenario == Scenario /\ Len(mouthShapes) = 7

\* The entries i-3 .. i+3 of a sequence, i counted from 0.
WindowEntries(i) == {j \in 1..Len(generatedShapes) : i - 2 <= j /\ j <= i + 4}

CountIn(i, label) ==
    Cardinality({j \in WindowEntries(i) : generatedShapes[j] = label})

FirstIn(i, label) ==
    CHOOSE j \in WindowEntries(i) :
        /\ generatedShapes[j] = label
        /\ \A m \in WindowEntries(i) : generatedShapes[m] = label => j <= m

Interior(i) == 3 <= i /\ i < Len(generatedShapes) - 3

\* C17: with smoothing enabled, entry i (3 <= i < length - 3) of the output
\* of smoothMouthShapes is the most frequent label among the entries
\* i-3 .. i+3 of its input, of several most frequent labels the one that
\* occurs first in the window; the entries within 3 of either end are those
\* of the input, and so is a whole sequence of fewer than 7 entries.
Thm_C17_Majority ==
    (Generated /\ lipsyncSettings.smoothing) =>
        /\ Len(generatedShapes) < 7 => mouthShapes = generatedShapes
        /\ \A i \in 0..(Len(generatedShapes) - 1) :
              IF Interior(i)
              THEN LET winner == mouthShapes[i + 1]
                   IN  /\ CountIn(i, winner) > 0
                       /\ \A j \in WindowEntries(i) :
                             LET other == generatedShapes[j]
                             IN  \/ CountIn(i, other) < CountIn(i, winner)
                                 \/ /\ CountIn(i, other) = CountIn(i, winner)
                                    /\ FirstIn(i, winner) <= FirstIn(i, other)
              ELSE mouthShapes[i + 1] = generatedShapes[i + 1]

\* Two labels occur three times each in the window of an interior entry,
\* the entry held the third label and now holds the one of the two that
\* comes first in the window.
Wit_C17_Majority ==
    /\ Generated
    /\ lipsyncSettings.smoothing
    /\ \E i \in 0..(Len(generatedShapes) - 1) :
          /\ Interior(i)
          /\ mouthShapes[i + 1] # generatedShapes[i + 1]
          /\ CountIn(i, generatedShapes[i + 1]) = 1
          /\ \E j \in WindowEntries(i) :
                /\ generatedShapes[j] # mouthShapes[i + 1]
                /\ CountIn(i, generatedShapes[j]) = CountIn(i, mouthShapes[i + 1])
                /\ FirstIn(i, mouthShapes[i + 1]) < j

\* C18: generateMouthShapes returns one shape for every value of the
\* envelope, and smoothMouthShapes a sequence as long as its input, with
\* smoothing enabled and with smoothing disabled, for the empty sequence
\* and the short ones as well.
Thm_C18_Lengths ==
    Generated =>
        /\ DOMAIN generatedShapes = 1..Len(amplitudes)
        /\ DOMAIN mouthShapes = 1..Len(generatedShapes)
        /\ \A k \in 1..Len(generatedShapes) :
              /\ generatedShapes[k] \in {"closed", "slightly-open", "open", "wide-open"}
              /\ mouthShapes[k] \in {"closed", "slightly-open", "open", "wide-open"}

\* A sequence with exactly one interior entry, smoothing enabled.
Wit_C18_Lengths ==
    /\ Generated
    /\ lipsyncSettings.smoothing
    /\ Len(amplitudes) = 7
    /\ Len(mouthShapes) = 7
    /\ mouthShapes[4] # generatedShapes[4]

\* C19: with smoothing disabled smoothMouthShapes returns its input, entry
\* for entry.
Thm_C19_Disabled ==
    (Generated /\ ~lipsyncSettings.smoothing) =>
        /\ Len(mouthShapes) = Len(generatedShapes)
        /\ \A k \in 1..Len(generatedShapes) : mouthShapes[k] = generatedShapes[k]

\* Smoothing is disabled on a sequence that smoothing would have changed.
Wit_C19_Disabled ==
    /\ Generated
    /\ ~lipsyncSettings.smoothing
    /\ Len(generatedShapes) >= 7
    /\ mouthShapes = generatedShapes
    /\ \E i \in 0..(Len(generatedShapes) - 1) :
          /\ Interior(i)
          /\ CountIn(i, generatedShapes[i + 1]) = 1

Silent(buffer) ==
    \A i \in 1..buffer.length : buffer.channelData[1][i].v = 0

\* C20: of a buffer whose channel 0 is silent (window size >= 1) every value
\* analyzeAudio returns is exactly 0.
Thm_C20_Silence ==
    (Analysed /\ audioBuffer.sampleRate \div 30 >= 1 /\ Silent(audioBuffer)) =>
        \A k \in 1..Len(amplitudes) :
            amplitudes[k].num = 0 /\ amplitudes[k].den > 0

\* A silent channel 0 next to a loud channel 1, several windows long.
Wit_C20_Silence ==
    /\ Analysed
    /\ Silent(audioBuffer)
    /\ audioBuffer.numberOfChannels = 2
    /\ Len(amplitudes) >= 3
    /\ audioBuffer.channelData[2][1].v = FullScale
    /\ \A k \in 1..Len(amplitudes) : amplitudes[k].num = 0

(***************************************************************************)
(* The amounts the graph is built from (Spec).                             *)
(***************************************************************************)
\* The amounts the nodes of the graph were given, in tenths: the intensity of
\* the impulse of the convolver and the amount behind the gains of the
\* reverb block, the amount behind the gains of the echo block, the amount
\* of the curve of the waveshaper.
AmountsUsed ==
    LET n == graph.nodes
    IN  (IF "reverb.convolver" \in DOMAIN n
         THEN {n["reverb.convolver"].param, n["reverb.wetGain"].param \div 30}
         ELSE {})
        \cup (IF "echo.delay" \in DOMAIN n
              THEN {n["echo.feedback"].param \div 40, n["echo.wetGain"].param \div 50}
              ELSE {})
        \cup (IF "waveshaper" \in DOMAIN n THEN {n["waveshaper"].param} ELSE {})

\* C13: every reverb, echo and distortion amount a gain is set from or a
\* curve or impulse is built from lies in [0, 1], and so does every gain of
\* the effect blocks.
Thm_C13_AmountsInRange ==
    Rendered =>
        /\ \A a \in AmountsUsed : AmountMin <= a /\ a <= AmountMax
        /\ \A k \in DOMAIN graph.nodes :
              graph.nodes[k].type = "gain" =>
                  (0 <= graph.nodes[k].param /\ graph.nodes[k].param <= 1000)

\* All three blocks wired, reverb and echo at the top of their sliders, the
\* distortion at the fallback amount of the robot preset.
Wit_C13_AmountsInRange ==
    /\ Rendered
    /\ settings.reverb = AmountMax
    /\ settings.echo = AmountMax
    /\ settings.distortion = 0
    /\ AmountsUsed = {AmountMax, 5}

(***************************************************************************)
(* The buffer without frames (Spec).                                       *)
(***************************************************************************)
\* C11: applyVoiceTransformation applied to a source buffer with no frames
\* returns a buffer with no frames: the transform does not fail.
Cex_C11_EmptyRender ==
    (sourceBuffer.length = 0 /\ selectedVoiceType \in VoiceTypeValues
        /\ pc # "transforming")
        => (pc # "failed" /\ processedBuffer.length = 0
                /\ processedBuffer.numberOfChannels = sourceBuffer.numberOfChannels)

(***************************************************************************)
(* The playback rate (Spec).                                               *)
(***************************************************************************)
\* C21: the playback rate set on the source is the pitch of the preset times
\* the pitch slider, and lies in [0.3, 3.6] for every preset and every
\* position of the slider from 0.5 to 2.0.
Thm_C21_PlaybackRate ==
    /\ Rendered =>
          /\ graph.nodes["source"].param
                = VoicePitch(selectedVoiceType) * settings.pitch
          /\ 30 <= graph.nodes["source"].param
          /\ graph.nodes["source"].param <= 360
    /\ \A v \in VoiceTypeValues, p \in PitchMin..PitchMax :
          LET rate == SourceStage(v, [settings EXCEPT !.pitch = p])
                         .nodes["source"].param
          IN  rate = VoicePitch(v) * p /\ 30 <= rate /\ rate <= 360

\* Both ends of the range: the lowest preset at the bottom of the slider or
\* the highest preset at its top.
Wit_C21_PlaybackRate ==
    /\ Rendered
    /\ selectedVoiceType = "adult-to-child"
    /\ settings.pitch = PitchMax
    /\ graph.nodes["source"].param = 360

(***************************************************************************)
(* The two generators applied to their arguments (SpecGenerators):         *)
(* createReverbImpulse to a sample rate, an intensity and the draws of     *)
(* Math.random(), createDistortionCurve to an amount.                      *)
(***************************************************************************)
MaxImpulseRate == 4

CallCreateReverbImpulse ==
    /\ pc = "impulse"
    /\ reverbImpulse' = CreateReverbImpulse(generatorArgs.sampleRate,
                            generatorArgs.amount,
                            Draws(generatorArgs.seed, generatorArgs.sampleRate))
    /\ pc' = "impulse returned"
    /\ UNCHANGED <<selectedVoiceType, settings, sourceBuffer, graph,
                   processedBuffer, processedAudio, handlerVars, lipsyncVars,
                   generatorArgs, distortionCurve, pageVars, uploadVars>>

CallCreateDistortionCurve ==
    /\ pc = "curve"
    /\ distortionCurve' = CreateDistortionCurve(generatorArgs.amount)
    /\ pc' = "curve returned"
    /\ UNCHANGED <<selectedVoiceType, settings, sourceBuffer, graph,
                   processedBuffer, processedAudio, handlerVars, lipsyncVars,
                   generatorArgs, reverbImpulse, pageVars, uploadVars>>

InitGenerators ==
    /\ selectedVoiceType = ""
    /\ settings = NoSettings
    /\ sourceBuffer = NoBuffer
    /\ graph = NoGraph
    /\ processedBuffer = NoBuffer
    /\ processedAudio = << >>
    /\ HandlerIdle
    /\ LipsyncIdle
    /\ PageIdle
    /\ UploadIdle
    /\ reverbImpulse = << >>
    /\ distortionCurve = << >>
    /\ \/ /\ generatorArgs \in [sampleRate : 1..MaxImpulseRate,
                                 amount : AmountMin..AmountMax, seed : Seeds]
          /\ pc = "impulse"
       \/ /\ generatorArgs \in [sampleRate : {0},
                                 amount : AmountMin..AmountMax, seed : {0}]
          /\ pc = "curve"

NextGenerators == CallCreateReverbImpulse \/ CallCreateDistortionCurve

SpecGenerators == InitGenerators /\ [][NextGenerators]_vars

\* C22: createReverbImpulse returns 2 channels of 2 * sampleRate frames,
\* frame i (from 0) of each of a magnitude of at most
\* (1 - i / (2 * sampleRate))^2 times the intensity, for every intensity in
\* [0, 1] and whatever Math.random() draws: the shape is the same for two
\* calls with the same arguments.
Thm_C22_Impulse ==
    pc = "impulse returned" =>
        LET length == 2 * generatorArgs.sampleRate
        IN  /\ DOMAIN reverbImpulse = 1..2
            /\ \A channel \in 1..2 :
                  /\ DOMAIN reverbImpulse[channel] = 1..length
                  /\ \A i \in 0..(length - 1) :
                        Abs(reverbImpulse[channel][i + 1]) * length * length * 10
                            <= FullScale * (length - i) * (length - i)
                                  * generatorArgs.amount

\* An impulse that reaches the bound at its first frame and that differs
\* from the one other draws give for the same arguments.
Wit_C22_Impulse ==
    /\ pc = "impulse returned"
    /\ generatorArgs.amount = AmountMax
    /\ Abs(reverbImpulse[1][1]) = FullScale
    /\ \E seed \in Seeds :
          LET other == CreateReverbImpulse(generatorArgs.sampleRate,
                          generatorArgs.amount,
                          Draws(seed, generatorArgs.sampleRate))
          IN  /\ other # reverbImpulse
              /\ DOMAIN other = DOMAIN reverbImpulse
              /\ DOMAIN other[1] = DOMAIN reverbImpulse[1]

\* C23: createDistortionCurve returns 44100 entries, entry i being
\* ((3 + amount) * x * 20 * pi / 180) / (pi + amount * |x|) for
\* x = 2 * i / 44100 - 1, a value of [-1, 1); the entry at i = 22050 is 0.
\* (With m = 2 * i - 44100 and pi = PiNum / PiDen the entry is
\* (30 + amount) * m * PiNum over 9 * (10 * PiNum * 44100 +
\* PiDen * amount * |m|), amount in tenths; e is that quotient in units of
\* 1 / FullScale, cut off toward zero.)
Thm_C23_Curve ==
    pc = "curve returned" =>
        /\ DOMAIN distortionCurve = 1..44100
        /\ distortionCurve[22050 + 1] = 0
        /\ \A i \in 0..44099 :
              LET m == 2 * i - 44100
                  e == distortionCurve[i + 1]
                  num == (30 + generatorArgs.amount) * m * PiNum
                  unit == (9 * (10 * PiNum * 44100
                                 + PiDen * generatorArgs.amount * Abs(m)))
                             \div FullScale
              IN  /\ -44100 <= m /\ m < 44100
                  /\ Abs(e) * unit <= Abs(num)
                  /\ Abs(num) < (Abs(e) + 1) * unit
                  /\ (e < 0) => (m < 0)
                  /\ (e > 0) => (m > 0)

\* The curve of the amount 1.0: its first entry is the one of x = -1,
\* -(4 * 20 * pi / 180) / (pi + 1) = -0.337, its last entry the one of the
\* largest x below 1.
Wit_C23_Curve ==
    /\ pc = "curve returned"
    /\ generatorArgs.amount = AmountMax
    /\ distortionCurve[1] = -345
    /\ distortionCurve[44100] = 345
    /\ distortionCurve[22051] = 0

\* C28: when a run of handleVoiceChange has finished, with success or with
\* a failure, the last status it reported through onProcessingUpdate has
\* isProcessing = false.
Cex_C28_LastStatus ==
    (pc = "idle" /\ loadCalls > 0) => ~status.isProcessing


MaxProjects == 2

\* The project rows the table holds when the page is opened have the id 1;
\* the projects created on the page get the ids from 2 on.
StoredIds == {1}

CreatedIds == 2..MaxProjects

\* prisma.project.create({ data: { name, description } }): no path is set.
NewProject(id) == [NoProject EXCEPT !.id = id]

\* Rows of the Project table as the schema allows them: nothing uploaded, a
\* video uploaded, processed content, an exported video.
StoredProjects ==
    {NewProject(1),
     [NewProject(1) EXCEPT !.originalVideoPath = TRUE],
     [NewProject(1) EXCEPT !.originalVideoPath = TRUE,
                           !.processedVideoPath = TRUE],
     [NewProject(1) EXCEPT !.originalVideoPath = TRUE,
                           !.processedAudioPath = TRUE,
                           !.finalVideoPath = TRUE]}

StepIds == <<"upload", "choose-type", "edit", "preview", "export">>

\* updateStepStatus(stepId, status)
UpdateStepStatus(steps, stepId, stepStatus) ==
    [index \in DOMAIN steps |->
        IF StepIds[index + 1] = stepId THEN stepStatus ELSE steps[index]]

\* The step content is keyed by currentStep: the VideoUpload of step 0 is
\* mounted anew whenever the step becomes 0, and the handleDrop it memoizes
\* with useCallback(..., []) keeps the handleFileUpload, and with it the
\* currentProject, of that first render.
Remount ==
    dropClosure' = IF currentStep # 0 /\ currentStep' = 0
                   THEN currentProject'
                   ELSE dropClosure

pageFrame == <<selectedVoiceType, settings, sourceBuffer, graph,
               processedBuffer, processedAudio, uploadedAudio, closure,
               isProcessing, loadCalls, caught, lipsyncVars, generatorVars>>

\* ProjectManager.handleCreateProject: POST /api/projects, then
\* onProjectCreate(project) = handleProjectCreate(project).
CreateProject ==
    /\ \E id \in CreatedIds :
         /\ \A p \in serverProjects : p.id # id
         /\ \A other \in CreatedIds :
               other < id => \E p \in serverProjects : p.id = other
         /\ serverProjects' = serverProjects \cup {NewProject(id)}
         /\ projects' = projects \cup {NewProject(id)}
         /\ currentProject' = NewProject(id)
    /\ currentStep' = 0
    /\ uploadedFiles' = {}
    /\ editingType' = ""
    /\ workflowSteps' = InitialSteps
    /\ toast' = "Project Created"
    /\ Remount
    /\ UNCHANGED <<pageFrame, pc, status, completeCalls, upload, serverFiles>>

\* ProjectManager.handleLoadProject(project): onProjectLoad(project) =
\* handleProjectLoad(project), with the copy of the project the list holds.
LoadProject ==
    /\ \E project \in projects :
         /\ currentProject' = project
         /\ currentStep' =
               IF project.finalVideoPath THEN 4
               ELSE IF project.processedVideoPath \/ project.processedAudioPath
               THEN 3
               ELSE IF project.originalVideoPath THEN 1
               ELSE 0
    /\ toast' = "Project Loaded"
    /\ Remount
    /\ UNCHANGED <<pageFrame, pc, status, completeCalls, uploadedFiles,
                   editingType, workflowSteps, projects, upload,
                   serverProjects, serverFiles>>

\* The limit of the VideoUpload and the limit of the route, in MB.
ClientMaxSize == 50

ServerMaxSize == 100

\* The heads of the MIME types of the files offered: an image, a video,
\* and a text file as a type getFileType knows nothing of. (An audio file
\* takes the way of the video file through handleFileUpload and the route.)
FileTypes == {"image", "video", "text"}

\* The files offered to the VideoUpload: one of each type at the limit of
\* 50 MB, and a video of one MB more.
Files ==
    {[type |-> t, size |-> ClientMaxSize] : t \in FileTypes}
    \cup {[type |-> "video", size |-> ClientMaxSize + 1]}

\* getFileType(file)
GetFileType(file) ==
    IF file.type = "video" THEN "video"
    ELSE IF file.type = "audio" THEN "audio"
    ELSE IF file.type = "image" THEN "image"
    ELSE ""

\* VideoUpload.handleFileUpload(file) up to its fetch, in the closure of a
\* render with the given currentProject.
HandleFileUpload(file, project, via) ==
    LET call == [file |-> file, fileType |-> GetFileType(file),
                 projectId |-> project.id, pageStep |-> 0,
                 selected |-> currentProject.id, via |-> via,
                 state |-> "sent"]
    IN  IF project = NoProject
        THEN /\ toast' = "No Project Selected"
             /\ upload' = [call EXCEPT !.state = "no project"]
        ELSE IF GetFileType(file) = ""
        THEN /\ toast' = "Invalid File Type"
             /\ upload' = [call EXCEPT !.state = "invalid type"]
        ELSE IF file.size > ClientMaxSize
        THEN /\ toast' = "File Too Large"
             /\ upload' = [call EXCEPT !.state = "too large"]
        ELSE /\ upload' = call
             /\ UNCHANGED toast

\* onChange of a file input: handleFileUpload of the current render.
ChooseFile ==
    /\ currentStep = 0
    /\ upload.state # "sent"
    /\ \E file \in Files : HandleFileUpload(file, currentProject, "input")
    /\ UNCHANGED <<pageFrame, pc, status, completeCalls, pageVars,
                   dropClosure, serverProjects, serverFiles>>

\* onDrop: handleDrop, which calls the handleFileUpload of the render the
\* VideoUpload was mounted in.
DropFile ==
    /\ currentStep = 0
    /\ upload.state # "sent"
    /\ \E file \in Files : HandleFileUpload(file, dropClosure, "drop")
    /\ UNCHANGED <<pageFrame, pc, status, completeCalls, pageVars,
                   dropClosure, serverProjects, serverFiles>>

\* POST /api/upload: the status of the response.
PostUpload(file, projectId, type, rows) ==
    IF file.type \notin {"video", "audio"} THEN 400
    ELSE IF file.size > ServerMaxSize THEN 400
    ELSE IF \A p \in rows : p.id # projectId THEN 500
    ELSE 200

\* POST /api/upload: the files under uploads/ after the request; the file
\* is written before the project row is updated.
PostUploadFiles(file, projectId, type, stored) ==
    IF file.type \notin {"video", "audio"} \/ file.size > ServerMaxSize
    THEN stored
    ELSE stored \cup {[projectId |-> projectId, type |-> type]}

\* POST /api/upload: the Project table after the request.
PostUploadProjects(file, projectId, type, rows) ==
    IF PostUpload(file, projectId, type, rows) = 200 /\ type = "video"
    THEN {IF p.id = projectId THEN [p EXCEPT !.originalVideoPath = TRUE]
          ELSE p : p \in rows}
    ELSE rows

\* The fetch of handleFileUpload settles: with an ok response
\* onFileUpload(file, fileType), the handleFileUpload of the page in the
\* closure of the same render, else the catch branch.
UploadSettles ==
    /\ upload.state = "sent"
    /\ serverFiles' = PostUploadFiles(upload.file, upload.projectId,
                                      upload.fileType, serverFiles)
    /\ serverProjects' = PostUploadProjects(upload.file, upload.projectId,
                                            upload.fileType, serverProjects)
    /\ IF PostUpload(upload.file, upload.projectId, upload.fileType,
                     serverProjects) = 200
       THEN /\ upload' = [upload EXCEPT !.state = "done"]
            /\ uploadedFiles' = uploadedFiles \cup {upload.fileType}
            /\ IF upload.pageStep = 0
               THEN /\ currentStep' = 1
                    /\ workflowSteps' =
                          UpdateStepStatus(
                              UpdateStepStatus(workflowSteps, "upload",
                                               "completed"),
                              "choose-type", "active")
               ELSE /\ workflowSteps' = UpdateStepStatus(workflowSteps,
                                            "upload", "completed")
                    /\ UNCHANGED currentStep
            /\ toast' = "Upload Successful"
       ELSE /\ upload' = [upload EXCEPT !.state = "failed"]
            /\ toast' = "Upload Failed"
            /\ UNCHANGED <<uploadedFiles, currentStep, workflowSteps>>
    /\ UNCHANGED <<pageFrame, pc, status, completeCalls, currentProject,
                   editingType, projects, dropClosure>>

EditingTypes == {"lipsync", "voice"}

\* onClick={() => handleEditingTypeSelect(type)} of the cards of step 1.
HandleEditingTypeSelect ==
    /\ currentStep = 1
    /\ \E type \in EditingTypes : editingType' = type
    /\ workflowSteps' =
          UpdateStepStatus(
              UpdateStepStatus(workflowSteps, "choose-type", "completed"),
              "edit", "active")
    /\ currentStep' = 2
    /\ toast' = "Editing Type Selected"
    /\ UNCHANGED <<pageFrame, pc, status, completeCalls, currentProject,
                   uploadedFiles, projects, uploadVars>>

\* The button of the component of step 2 is enabled: the VoiceChanger needs
\* an audio or a video file, the LipsyncGenerator an image and an audio
\* file.
CanProcess ==
    \/ editingType = "voice" /\ uploadedFiles \cap {"audio", "video"} # {}
    \/ editingType = "lipsync" /\ {"image", "audio"} \subseteq uploadedFiles

\* handleVoiceChange or handleLipsyncGeneration starts: its first
\* onProcessingUpdate.
StartProcessing ==
    /\ currentStep = 2
    /\ pc = "idle"
    /\ CanProcess
    /\ pc' = "processing"
    /\ status' = OnProcessingUpdate(IF editingType = "voice" THEN 20 ELSE 0,
                                    "Started")
    /\ UNCHANGED <<pageFrame, toast, completeCalls, pageVars, uploadVars>>

\* The run ends: with a success its last onProcessingUpdate and
\* onProcessingComplete() = handleProcessingComplete(), with a failure the
\* status of the catch branch.
ProcessingSettles ==
    /\ pc = "processing"
    /\ pc' = "idle"
    /\ \/ /\ status' = OnProcessingUpdate(100, "Completed")
          /\ workflowSteps' =
                UpdateStepStatus(
                    UpdateStepStatus(workflowSteps, "edit", "completed"),
                    "preview", "active")
          /\ currentStep' = 3
          /\ toast' = "Processing Complete"
       \/ /\ status' = NoStatus
          /\ toast' = "Failed"
          /\ UNCHANGED <<workflowSteps, currentStep>>
    /\ UNCHANGED <<pageFrame, completeCalls, currentProject, uploadedFiles,
                   editingType, projects, upload, serverProjects, serverFiles>>
    /\ Remount

\* The button 'Approve & Continue to Export' of step 3 is not disabled.
ApproveEnabled ==
    currentProject.processedVideoPath \/ currentProject.processedAudioPath

\* onClick={handlePreviewApproved}
HandlePreviewApproved ==
    /\ currentStep = 3
    /\ ApproveEnabled
    /\ workflowSteps' =
          UpdateStepStatus(
              UpdateStepStatus(workflowSteps, "preview", "completed"),
              "export", "active")
    /\ currentStep' = 4
    /\ UNCHANGED <<pageFrame, pc, status, toast, completeCalls,
                   currentProject, uploadedFiles, editingType, projects,
                   uploadVars>>

\* canProceedToStep(stepIndex)
CanProceedToStep(stepIndex) ==
    CASE stepIndex = 1 -> uploadedFiles # {}
      [] stepIndex = 2 -> editingType # ""
      [] stepIndex \in {3, 4} -> currentProject.processedVideoPath
                                  \/ currentProject.processedAudioPath
      [] OTHER -> TRUE

\* onClick={() => canAccess && goToStep(index)} of the step navigation;
\* goToStep does nothing for a step after the current one.
GoToStep ==
    /\ \E stepIndex \in 0..4 :
         /\ stepIndex <= currentStep \/ CanProceedToStep(stepIndex)
         /\ stepIndex <= currentStep
         /\ currentStep' = stepIndex
         /\ workflowSteps' =
               [index \in 0..4 |->
                   IF index < stepIndex THEN "completed"
                   ELSE IF index = stepIndex THEN "active"
                   ELSE "pending"]
    /\ UNCHANGED <<pageFrame, pc, status, toast, completeCalls,
                   currentProject, uploadedFiles, editingType, projects,
                   upload, serverProjects, serverFiles>>
    /\ Remount

\* POST /api/export: the Project table after the request.
PostExport(projectId, rows) ==
    {IF p.id = projectId /\ (p.processedVideoPath \/ p.processedAudioPath)
     THEN [p EXCEPT !.finalVideoPath = TRUE]
     ELSE p : p \in rows}

\* ExportOptions.handleExport, from the click to its last status.
HandleExport ==
    /\ currentStep = 4
    /\ IF currentProject = NoProject
       THEN /\ toast' = "No Project Selected"
            /\ UNCHANGED <<status, serverProjects>>
       ELSE IF ~(currentProject.processedVideoPath
                 \/ currentProject.processedAudioPath)
       THEN /\ toast' = "No Processed Content"
            /\ UNCHANGED <<status, serverProjects>>
       ELSE /\ serverProjects' = PostExport(currentProject.id, serverProjects)
            /\ status' = [isProcessing |-> FALSE, progress |-> 100,
                          stage |-> "Export completed successfully!"]
            /\ toast' = "Export Complete"
    /\ UNCHANGED <<pageFrame, pc, completeCalls, pageVars, dropClosure,
                   upload, serverFiles>>

InitPage ==
    /\ selectedVoiceType = ""
    /\ settings = NoSettings
    /\ sourceBuffer = NoBuffer
    /\ graph = NoGraph
    /\ processedBuffer = NoBuffer
    /\ processedAudio = << >>
    /\ pc = "idle"
    /\ HandlerIdle
    /\ LipsyncIdle
    /\ GeneratorIdle
    /\ currentProject = NoProject
    /\ currentStep = 0
    /\ uploadedFiles = {}
    /\ editingType = ""
    /\ workflowSteps = InitialSteps
    /\ dropClosure = NoProject
    /\ upload = NoUpload
    /\ serverFiles = {}
    /\ serverProjects \in {{}} \cup {{p} : p \in StoredProjects}
    /\ projects = serverProjects

NextPage ==
    \/ CreateProject
    \/ LoadProject
    \/ ChooseFile
    \/ DropFile
    \/ UploadSettles
    \/ HandleEditingTypeSelect
    \/ StartProcessing
    \/ ProcessingSettles
    \/ HandlePreviewApproved
    \/ GoToStep
    \/ HandleExport

SpecPage == InitPage /\ [][NextPage]_vars

\* C24: no data leaves the device: nothing is ever stored under the uploads
\* directory of the server.
Cex_C24_Local == serverFiles = {}

\* C25: with a project selected, a call of handleFileUpload with an image, a
\* video or an audio file of at most 50 MB that has settled has succeeded
\* and has called onFileUpload.
Cex_C25_Accepted ==
    (/\ upload.via = "input"
     /\ upload.selected # 0
     /\ upload.file.type \in {"image", "video", "audio"}
     /\ upload.file.size <= ClientMaxSize
     /\ upload.state # "sent")
        => upload.state = "done"

\* C26: a project created on the page that has reached the preview through
\* an upload, the choice of the editing type and a successful run can be
\* approved and taken to the export.
Cex_C26_Approve ==
    (/\ currentProject.id \in CreatedIds
     /\ currentStep = 3
     /\ status = OnProcessingUpdate(100, "Completed")
     /\ uploadedFiles # {}
     /\ editingType # "")
        => ApproveEnabled

\* C27: a drop made while a project is selected is handled like the choice
\* of the file in a file input: it is not turned down for a missing
\* project and it goes to the selected project.
Cex_C27_Drop ==
    (upload.via = "drop" /\ upload.selected # 0)
        => /\ upload.state # "no project"
           /\ upload.projectId = upload.selected

\* C29: exactly one workflow step is 'active', the one at the index
\* currentStep.
Cex_C29_OneActive ==
    \A index \in 0..4 : (workflowSteps[index] = "active") <=> (index = currentStep)


====
